---------------------------- MODULE Spec2Model ----------------------------
(***************************************************************************)
(* Streaming decoder of ChatGLMRouterProvider (src/src/provider.ts).       *)
(*                                                                         *)
(* Text is modelled by TLA+ strings, character for character: the three    *)
(* inline tool-call markers, the control-token regular expressions and the *)
(* JSON argument texts are the literals of the source.  The decoder state  *)
(* is the set of private fields of the one provider instance; every chat   *)
(* request has its own reader, cancellation token and progress sink.       *)
(***************************************************************************)
EXTENDS Integers, Sequences, FiniteSets, TLC

(***************************************************************************)
(* Bounds of the model.                                                    *)
(***************************************************************************)
\* a content text is cut into at most MaxPieces content fragments
MaxPieces == 2
\* a stream built from the line alphabet holds at most MaxLines lines
MaxLines == 3

(***************************************************************************)
(* JavaScript string primitives used by the decoder (offsets from 0, never *)
(* negative).                                                              *)
(***************************************************************************)
\* s.slice(from, to)
Slice(s, from, to) ==
    IF from >= to \/ from >= Len(s) THEN ""
    ELSE SubSeq(s, from + 1, IF to > Len(s) THEN Len(s) ELSE to)

\* s.slice(from)
SliceFrom(s, from) == IF from >= Len(s) THEN "" ELSE SubSeq(s, from + 1, Len(s))

\* s[i], the empty string when i is out of range
CharAt(s, i) == IF i < Len(s) THEN SubSeq(s, i + 1, i + 1) ELSE ""

\* s.startsWith(p, at)
StartsWithAt(s, p, at) == at + Len(p) <= Len(s) /\ SubSeq(s, at + 1, at + Len(p)) = p

\* s.endsWith(p)
EndsWith(s, p) == Len(p) <= Len(s) /\ SubSeq(s, Len(s) - Len(p) + 1, Len(s)) = p

\* the least offset i >= from of hits, -1 when there is none
FirstFrom(hits, from) ==
    IF \A i \in hits : i < from THEN -1
    ELSE CHOOSE i \in hits : i >= from /\ \A j \in hits : j >= from => i <= j

\* s.indexOf(p): the least offset at which p occurs, -1 when there is none
IndexOf(s, p) == FirstFrom({i \in 0..(Len(s) - Len(p)) : StartsWithAt(s, p, i)}, 0)

\* Math.ceil(n / 4)
Ceil4(n) == (n + 3) \div 4

(***************************************************************************)
(* Character classes of the regular expressions of the decoder.            *)
(***************************************************************************)
Letters ==
    {"a","b","c","d","e","f","g","h","i","j","k","l","m",
     "n","o","p","q","r","s","t","u","v","w","x","y","z",
     "A","B","C","D","E","F","G","H","I","J","K","L","M",
     "N","O","P","Q","R","S","T","U","V","W","X","Y","Z"}

Digits == {"0","1","2","3","4","5","6","7","8","9"}

\* [a-zA-Z0-9_-] of the section-token expression
SectionChars == Letters \cup Digits \cup {"_", "-"}

\* [A-Za-z0-9_\-.] of the header expression
NameChars == SectionChars \cup {"."}

Whitespace == {" ", "\n", "\t", "\r"}

\* the least offset j >= i at which s has no character of class (Len(s) at most)
RunEnd(s, i, class) ==
    IF i >= Len(s) THEN i
    ELSE CHOOSE j \in i..Len(s) :
            /\ CharAt(s, j) \notin class
            /\ \A k \in i..(j - 1) : CharAt(s, k) \in class

\* the end of s without its trailing whitespace, from at least (from <= Len(s))
TrimEnd(s, from) ==
    CHOOSE t \in from..Len(s) :
        /\ t = from \/ CharAt(s, t - 1) \notin Whitespace
        /\ \A u \in (t + 1)..Len(s) : CharAt(s, u - 1) \in Whitespace

\* s without the whitespace before offset from and at its end
TrimmedFrom(s, from) == Slice(s, from, TrimEnd(s, from))

\* s.trim()
Trim(s) == TrimmedFrom(s, RunEnd(s, 0, Whitespace))

(***************************************************************************)
(* stripControlTokens: two global replacements, one after the other.       *)
(***************************************************************************)
\* whether run, the [a-zA-Z0-9_-] characters after "<|", is [..]+_section_(begin|end)
IsSectionRun(run) ==
    \/ EndsWith(run, "_section_begin") /\ Len(run) > Len("_section_begin")
    \/ EndsWith(run, "_section_end") /\ Len(run) > Len("_section_end")

\* the match of the section expression at i ends at j + 2, j the end of the run
SectionTokenEndsAt(text, i, j) ==
    IF StartsWithAt(text, "|>", j) /\ IsSectionRun(Slice(text, i + 2, j)) THEN j + 2 - i ELSE 0

\* length of the match of /<\|[a-zA-Z0-9_-]+_section_(?:begin|end)\|>/ at i, or 0
SectionTokenAt(text, i) ==
    IF ~StartsWithAt(text, "<|", i) THEN 0
    ELSE SectionTokenEndsAt(text, i, RunEnd(text, i + 2, SectionChars))

\* length of the match of /<\|tool_call_(?:argument_)?(?:begin|end)\|>/ at i, or 0
ToolTokenAt(text, i) ==
    IF StartsWithAt(text, "<|tool_call_begin|>", i) THEN Len("<|tool_call_begin|>")
    ELSE IF StartsWithAt(text, "<|tool_call_end|>", i) THEN Len("<|tool_call_end|>")
    ELSE IF StartsWithAt(text, "<|tool_call_argument_begin|>", i)
         THEN Len("<|tool_call_argument_begin|>")
    ELSE IF StartsWithAt(text, "<|tool_call_argument_end|>", i)
         THEN Len("<|tool_call_argument_end|>")
    ELSE 0

RECURSIVE CutTokens(_, _, _)
\* text from offset i on without the tokens; lens[j] is the length of the match at j
CutTokens(text, lens, i) ==
    IF \A j \in DOMAIN lens : j < i \/ lens[j] = 0 THEN SliceFrom(text, i)
    ELSE LET m == CHOOSE j \in DOMAIN lens :
                     /\ j >= i /\ lens[j] > 0
                     /\ \A k \in DOMAIN lens : (k >= i /\ lens[k] > 0) => j <= k
         IN  Slice(text, i, m) \o CutTokens(text, lens, m + lens[m])

\* text.replace(/<\|[a-zA-Z0-9_-]+_section_(?:begin|end)\|>/g, "")
ReplaceSectionTokens(text) ==
    CutTokens(text, [j \in 0..(Len(text) - 1) |-> SectionTokenAt(text, j)], 0)

\* text.replace(/<\|tool_call_(?:argument_)?(?:begin|end)\|>/g, "")
ReplaceToolTokens(text) ==
    CutTokens(text, [j \in 0..(Len(text) - 1) |-> ToolTokenAt(text, j)], 0)

stripControlTokens(text) == ReplaceToolTokens(ReplaceSectionTokens(text))

(***************************************************************************)
(* tryParseJSONObject (utils.ts, not among the sources): JSON.parse of the *)
(* trimmed text, accepted when the result is an object.  A parsed value is *)
(* represented by its JSON.stringify text.  The grammar covers objects,    *)
(* arrays, integers, the three literals and strings without escapes; the   *)
(* texts of the model have no duplicate and no integer-like keys, for      *)
(* which JSON.stringify keeps the members in source order.                 *)
(***************************************************************************)
JsonFail == [ok |-> FALSE, next |-> 0, canon |-> "", kind |-> "none"]

JsonOk(next, canon, kind) == [ok |-> TRUE, next |-> next, canon |-> canon, kind |-> kind]

RECURSIVE JsonValue(_, _)
RECURSIVE JsonMembers(_, _, _)
RECURSIVE JsonElements(_, _, _)

\* after the value val of a bracketed list: close ends the list, a comma continues
\* it at the returned offset (kind "more"); acc is the text serialized so far
JsonAfter(s, val, acc, close, kind) ==
    LET after == RunEnd(s, val.next, Whitespace)
    IN  IF ~val.ok THEN JsonFail
        ELSE IF CharAt(s, after) = close
             THEN JsonOk(after + 1, acc \o val.canon \o close, kind)
        ELSE IF CharAt(s, after) = ","
             THEN JsonOk(RunEnd(s, after + 1, Whitespace), acc \o val.canon \o ",", "more")
        ELSE JsonFail

\* the rest of a list after one of its items
JsonContinue(s, r, isObject) ==
    IF ~(r.ok /\ r.kind = "more") THEN r
    ELSE IF isObject THEN JsonMembers(s, r.next, r.canon)
    ELSE JsonElements(s, r.next, r.canon)

\* the elements of an array from offset i on
JsonElements(s, i, acc) ==
    JsonContinue(s, JsonAfter(s, JsonValue(s, i), acc, "]", "array"), FALSE)

\* the member that starts with the string key
JsonMemberValue(s, key, acc) ==
    LET colon == RunEnd(s, key.next, Whitespace)
    IN  IF ~(key.ok /\ key.kind = "string" /\ CharAt(s, colon) = ":") THEN JsonFail
        ELSE JsonAfter(s, JsonValue(s, RunEnd(s, colon + 1, Whitespace)),
                       acc \o key.canon \o ":", "}", "object")

\* the members of an object from offset i on
JsonMembers(s, i, acc) ==
    JsonContinue(s, JsonMemberValue(s, JsonValue(s, i), acc), TRUE)

\* the JSON value that starts at offset i of s
JsonValue(s, i) ==
    LET c == CharAt(s, i)
        j == RunEnd(s, i + 1, Whitespace)
        q == IndexOf(SliceFrom(s, i + 1), "\"")
        d == RunEnd(s, i, Digits)
    IN  CASE c = "{" -> IF CharAt(s, j) = "}" THEN JsonOk(j + 1, "{}", "object")
                        ELSE JsonMembers(s, j, "{")
          [] c = "[" -> IF CharAt(s, j) = "]" THEN JsonOk(j + 1, "[]", "array")
                        ELSE JsonElements(s, j, "[")
          [] c = "\"" -> IF q = -1 THEN JsonFail
                         ELSE JsonOk(i + q + 2, Slice(s, i, i + q + 2), "string")
          [] c \in Digits -> IF c = "0" /\ d > i + 1 THEN JsonFail
                             ELSE JsonOk(d, Slice(s, i, d), "number")
          [] StartsWithAt(s, "true", i) -> JsonOk(i + 4, "true", "literal")
          [] StartsWithAt(s, "false", i) -> JsonOk(i + 5, "false", "literal")
          [] StartsWithAt(s, "null", i) -> JsonOk(i + 4, "null", "literal")
          [] OTHER -> JsonFail

\* the result for the trimmed text t with the value v read at its start
ParsedObject(t, v) ==
    IF v.ok /\ v.kind = "object" /\ v.next = Len(t)
    THEN [ok |-> TRUE, value |-> v.canon]
    ELSE [ok |-> FALSE, value |-> "undefined"]

\* { ok, value }: value is the parsed object, as its JSON.stringify text
tryParseJSONObject(text) == ParsedObject(Trim(text), JsonValue(Trim(text), 0))

(***************************************************************************)
(* Response parts handed to progress.report.  A tool-call part carries its *)
(* arguments object as JSON.stringify text.  via, index and raw record     *)
(* where the part came from (the emitting code path, the structured or     *)
(* declared index, the argument text that was parsed); the decoder never   *)
(* reads them.                                                             *)
(***************************************************************************)
\* an absent optional string (undefined)
None == "<undefined>"

\* an absent optional number (undefined)
NoIndex == -1

LanguageModelTextPart(value, via) ==
    [kind |-> "Text", value |-> value, id |-> None, name |-> None, input |-> None,
     via |-> via, index |-> NoIndex, raw |-> None]

LanguageModelToolCallPart(id, name, input, via, index, raw) ==
    [kind |-> "ToolCall", value |-> None, id |-> id, name |-> name, input |-> input,
     via |-> via, index |-> index, raw |-> raw]

\* `call_${Math.random()...}`: the random suffix is left out
GeneratedCallId == "call_"

\* `tct_${Math.random()...}`: the random suffix is left out
GeneratedTextCallId == "tct_"

(***************************************************************************)
(* The private fields of ChatGLMRouterProvider that hold decoder state.    *)
(* toolCallBuffers is the Map in insertion order.                          *)
(***************************************************************************)
NoTextToolActive ==
    [on |-> FALSE, name |-> None, index |-> NoIndex, argBuffer |-> "", emitted |-> FALSE]

InitialFields ==
    [toolCallBuffers |-> <<>>,
     completedToolCallIndices |-> {},
     hasEmittedAssistantText |-> FALSE,
     emittedBeginToolCallsHint |-> FALSE,
     textToolParserBuffer |-> "",
     textToolActive |-> NoTextToolActive,
     emittedTextToolCallKeys |-> {},
     emittedTextToolCallIds |-> {},
     outputTokenCount |-> 0]

\* Map.has / Map.get / Map.set / Map.delete on toolCallBuffers
BufferHas(bufs, idx) == \E k \in 1..Len(bufs) : bufs[k].index = idx

BufferGet(bufs, idx) ==
    IF BufferHas(bufs, idx)
    THEN bufs[CHOOSE k \in 1..Len(bufs) : bufs[k].index = idx]
    ELSE [index |-> idx, id |-> None, name |-> None, args |-> ""]

BufferSet(bufs, buf) ==
    IF BufferHas(bufs, buf.index)
    THEN [k \in 1..Len(bufs) |-> IF bufs[k].index = buf.index THEN buf ELSE bufs[k]]
    ELSE Append(bufs, buf)

BufferDelete(bufs, idx) == SelectSeq(bufs, LAMBDA b : b.index # idx)

(***************************************************************************)
(* Inline tool calls embedded in text content.  The operators return the   *)
(* provider fields p and out, the parts reported so far.                   *)
(***************************************************************************)
BEGIN == "<|tool_call_begin|>"

ARG_BEGIN == "<|tool_call_argument_begin|>"

END == "<|tool_call_end|>"

RECURSIVE NumberOf(_)
\* Number(digits) for a string of decimal digits
NumberOf(digits) ==
    IF digits = "" THEN 0
    ELSE 10 * NumberOf(Slice(digits, 0, Len(digits) - 1))
         + (CHOOSE n \in 0..9 : ToString(n) = CharAt(digits, Len(digits) - 1))

\* m[1] and m[2] of the header match: the name ends at n, the digits at d
HeaderGroups(header, n, d) ==
    IF n = 0 THEN [name |-> None, index |-> NoIndex]
    ELSE IF CharAt(header, n) = ":" /\ d > n + 1
         THEN [name |-> Slice(header, 0, n), index |-> NumberOf(Slice(header, n + 1, d))]
    ELSE [name |-> Slice(header, 0, n), index |-> NoIndex]

\* the textToolActive made of header.match(/^([A-Za-z0-9_\-.]+)(?::(\d+))?/)
HeaderCall(header) ==
    [on |-> TRUE, argBuffer |-> "", emitted |-> FALSE] @@
    HeaderGroups(header, RunEnd(header, 0, NameChars),
                 RunEnd(header, RunEnd(header, 0, NameChars) + 1, Digits))

\* the longest k, 0 < k < data.length, with data ending in the first k characters
\* of BEGIN; 0 when there is none
longestPartialPrefix(data) ==
    IF \A k \in 1..(Len(BEGIN) - 1) : k >= Len(data) \/ ~EndsWith(data, Slice(BEGIN, 0, k))
    THEN 0
    ELSE CHOOSE k \in 1..(Len(BEGIN) - 1) :
            /\ k < Len(data) /\ EndsWith(data, Slice(BEGIN, 0, k))
            /\ \A j \in (k + 1)..(Len(BEGIN) - 1) :
                   j >= Len(data) \/ ~EndsWith(data, Slice(BEGIN, 0, j))

\* visibleOut = segment + visibleOut: the segment goes before the earlier ones
PrependVisible(visibleOut, segment) == segment \o visibleOut

\* visibleOut += segment
AppendVisible(visibleOut, segment) == visibleOut \o segment

\* the dedup test of emitTextToolCallIfValid: TRUE when the call was reported before
\* the registries are never consulted
NeverEmitted(p, name, index, canonical) == FALSE

AlreadyEmitted(p, name, index, canonical) ==
    IF index # NoIndex
    THEN (name \o ":" \o ToString(index)) \in p.emittedTextToolCallIds
    ELSE (name \o ":" \o canonical) \in p.emittedTextToolCallKeys

\* emitTextToolCallIfValid after the parse, for the call name
EmitTextToolCall(r, name, index, argText, parsed) ==
    IF ~parsed.ok \/ AlreadyEmitted(r.p, name, index, parsed.value)
    THEN [p |-> r.p, out |-> r.out, did |-> FALSE]
    ELSE [p |-> [r.p EXCEPT !.emittedTextToolCallIds =
                                IF index # NoIndex
                                THEN @ \cup {name \o ":" \o ToString(index)} ELSE @,
                            !.emittedTextToolCallKeys = @ \cup {name \o ":" \o parsed.value}],
          out |-> Append(r.out, LanguageModelToolCallPart(GeneratedTextCallId, name,
                                     parsed.value, "inline", index, argText)),
          did |-> TRUE]

\* r holds the fields and the parts reported so far; returns them with the result did
emitTextToolCallIfValid(r, call, argText) ==
    EmitTextToolCall(r, IF call.name = None THEN "unknown_tool" ELSE call.name,
                     call.index, argText, tryParseJSONObject(argText))

\* the state of the loop of processTextContent
LoopState(p, data, visibleOut, out) ==
    [p |-> p, data |-> data, visibleOut |-> visibleOut, out |-> out]

RECURSIVE TextLoop(_)

\* no begin marker in data: the last k characters may start one
HoldPartialPrefix(l, k) ==
    LoopState(IF k > 0
              THEN [l.p EXCEPT !.textToolParserBuffer = SliceFrom(l.data, Len(l.data) - k)]
              ELSE l.p,
              "",
              AppendVisible(l.visibleOut, stripControlTokens(Slice(l.data, 0, Len(l.data) - k))),
              l.out)

\* what follows the end marker of a header without arguments is thrown away
BareCallDropsRest(l, r, rest) ==
    TextLoop(LoopState([r.p EXCEPT !.textToolActive = NoTextToolActive], "",
                       l.visibleOut, r.out))

\* a header closed by the end marker: the call is emitted with "{}" and cleared
BareCall(l, r, rest) ==
    TextLoop(LoopState([r.p EXCEPT !.textToolActive = NoTextToolActive], rest,
                       l.visibleOut, r.out))

\* l.data starts after a begin marker; a and e are the offsets of the argument-begin
\* and end markers in it
CaptureHeader(l, a, e) ==
    IF a # -1 /\ (e = -1 \/ a < e)
    THEN TextLoop([l EXCEPT !.p.textToolActive = HeaderCall(Trim(Slice(l.data, 0, a))),
                            !.data = SliceFrom(l.data, a + Len(ARG_BEGIN))])
    ELSE IF e # -1
    THEN BareCall(l, emitTextToolCallIfValid([p |-> l.p, out |-> l.out],
                                             HeaderCall(Trim(Slice(l.data, 0, e))), "{}"),
                  SliceFrom(l.data, e + Len(END)))
    ELSE LoopState([l.p EXCEPT !.textToolParserBuffer = BEGIN \o l.data], "",
                   l.visibleOut, l.out)

\* no call is active; b is the offset of the begin marker in l.data
ScanBegin(l, b) ==
    IF b = -1 THEN HoldPartialPrefix(l, longestPartialPrefix(l.data))
    ELSE CaptureHeader(
             LoopState(l.p, SliceFrom(l.data, b + Len(BEGIN)),
                       AppendVisible(l.visibleOut, stripControlTokens(Slice(l.data, 0, b))),
                       l.out),
             IndexOf(SliceFrom(l.data, b + Len(BEGIN)), ARG_BEGIN),
             IndexOf(SliceFrom(l.data, b + Len(BEGIN)), END))

\* the end marker does not clear the active call: what follows goes on as arguments
AfterCaptureStaysActive(l, r, e2) ==
    IF e2 = -1
    THEN LoopState([r.p EXCEPT !.textToolActive.emitted = @ \/ r.did], "", l.visibleOut, r.out)
    ELSE TextLoop(LoopState(r.p, SliceFrom(l.data, e2 + Len(END)), l.visibleOut, r.out))

\* the active call after its attempt r to emit; e2 is the offset of the end marker
AfterCapture(l, r, e2) ==
    IF e2 = -1
    THEN LoopState([r.p EXCEPT !.textToolActive.emitted = @ \/ r.did], "", l.visibleOut, r.out)
    ELSE TextLoop(LoopState([r.p EXCEPT !.textToolActive = NoTextToolActive],
                            SliceFrom(l.data, e2 + Len(END)), l.visibleOut, r.out))

\* the active call is emitted only once its end marker is there
EmitCapturedAtEnd(l, e2) ==
    AfterCapture(l,
                 IF l.p.textToolActive.emitted \/ e2 = -1
                 THEN [p |-> l.p, out |-> l.out, did |-> FALSE]
                 ELSE emitTextToolCallIfValid([p |-> l.p, out |-> l.out], l.p.textToolActive,
                                              l.p.textToolActive.argBuffer),
                 e2)

\* a call is active with its argBuffer grown; it is emitted unless it was before
EmitCaptured(l, e2) ==
    AfterCapture(l,
                 IF l.p.textToolActive.emitted THEN [p |-> l.p, out |-> l.out, did |-> FALSE]
                 ELSE emitTextToolCallIfValid([p |-> l.p, out |-> l.out], l.p.textToolActive,
                                              l.p.textToolActive.argBuffer),
                 e2)

\* the argument text of the fragment replaces the argBuffer instead of growing it
CaptureArgumentsAnew(l, e2) ==
    EmitCaptured([l EXCEPT !.p.textToolActive.argBuffer =
                               IF e2 = -1 THEN l.data ELSE Slice(l.data, 0, e2)],
                 e2)

\* a call is active; e2 is the offset of the end marker in l.data
CaptureArguments(l, e2) ==
    EmitCaptured([l EXCEPT !.p.textToolActive.argBuffer =
                               @ \o (IF e2 = -1 THEN l.data ELSE Slice(l.data, 0, e2))],
                 e2)

\* the while loop of processTextContent, from loop state l to the state it ends in
TextLoop(l) ==
    IF Len(l.data) = 0 THEN l
    ELSE IF ~l.p.textToolActive.on THEN ScanBegin(l, IndexOf(l.data, BEGIN))
    ELSE CaptureArguments(l, IndexOf(l.data, END))

\* processTextContent after its loop: the visible text is reported, the buffer set
ReportVisible(l) ==
    [p |-> [l.p EXCEPT !.textToolParserBuffer = l.data],
     out |-> IF Len(l.visibleOut) > 0
             THEN Append(l.out, LanguageModelTextPart(l.visibleOut, "content"))
             ELSE l.out,
     emittedText |-> Len(l.visibleOut) > 0]

\* r holds the fields and the parts reported so far
processTextContent(r, input) ==
    ReportVisible(TextLoop(LoopState(r.p, r.p.textToolParserBuffer \o input, "", r.out)))

\* flushActiveTextToolCall after its call of emitTextToolCallIfValid
ClearActive(r) == [p |-> [r.p EXCEPT !.textToolActive = NoTextToolActive], out |-> r.out]

flushActiveTextToolCall(r) ==
    IF ~r.p.textToolActive.on \/ ~tryParseJSONObject(r.p.textToolActive.argBuffer).ok
    THEN [p |-> r.p, out |-> r.out]
    ELSE ClearActive(emitTextToolCallIfValid(r, r.p.textToolActive,
                                             r.p.textToolActive.argBuffer))

(***************************************************************************)
(* Structured tool calls (delta.tool_calls), assembled by index.           *)
(***************************************************************************)
\* the report of a buffered call whose key is not put into the registry
ReportBufferedUnkeyed(r, buf, name, parsed, via) ==
    [p |-> [r.p EXCEPT !.toolCallBuffers = BufferDelete(@, buf.index),
                       !.completedToolCallIndices = @ \cup {buf.index}],
     out |-> Append(r.out, LanguageModelToolCallPart(
                               IF buf.id = None THEN GeneratedCallId ELSE buf.id,
                               name, parsed.value, via, buf.index, buf.args))]

\* the report of a buffered call that leaves its buffer in place
ReportBufferedKeepsPending(r, buf, name, parsed, via) ==
    [p |-> [r.p EXCEPT !.emittedTextToolCallKeys = @ \cup {name \o ":" \o parsed.value},
                       !.completedToolCallIndices = @ \cup {buf.index}],
     out |-> Append(r.out, LanguageModelToolCallPart(
                               IF buf.id = None THEN GeneratedCallId ELSE buf.id,
                               name, parsed.value, via, buf.index, buf.args))]

\* the report of a buffered call and the bookkeeping that follows it
ReportBuffered(r, buf, name, parsed, via) ==
    [p |-> [r.p EXCEPT !.emittedTextToolCallKeys = @ \cup {name \o ":" \o parsed.value},
                       !.toolCallBuffers = BufferDelete(@, buf.index),
                       !.completedToolCallIndices = @ \cup {buf.index}],
     out |-> Append(r.out, LanguageModelToolCallPart(
                               IF buf.id = None THEN GeneratedCallId ELSE buf.id,
                               name, parsed.value, via, buf.index, buf.args))]

\* tryEmitBufferedToolCall without its parse guard: any named buffer is reported
CanEmitBufferedUnparsed(buf, parsed) == buf.name # None

\* the guards of tryEmitBufferedToolCall: a buffer with a name whose args parse
CanEmitBuffered(buf, parsed) == buf.name # None /\ parsed.ok

EmitBuffered(r, buf, parsed) ==
    IF ~CanEmitBuffered(buf, parsed) THEN [p |-> r.p, out |-> r.out]
    ELSE ReportBuffered(r, buf, buf.name, parsed, "merge")

tryEmitBufferedToolCall(r, index) ==
    IF ~BufferHas(r.p.toolCallBuffers, index) THEN [p |-> r.p, out |-> r.out]
    ELSE EmitBuffered(r, BufferGet(r.p.toolCallBuffers, index),
                      tryParseJSONObject(BufferGet(r.p.toolCallBuffers, index).args))

RECURSIVE FlushLoop(_, _, _)

\* one iteration of the loop of flushToolCallBuffers
FlushEntry(r, entries, throwOnInvalid, parsed) ==
    IF parsed.ok
    THEN FlushLoop(ReportBuffered(r, Head(entries),
                                  IF Head(entries).name = None THEN "unknown_tool"
                                  ELSE Head(entries).name,
                                  parsed, "flush"),
                   Tail(entries), throwOnInvalid)
    ELSE IF throwOnInvalid THEN [p |-> r.p, out |-> r.out, threw |-> TRUE]
    ELSE FlushLoop(r, Tail(entries), throwOnInvalid)

\* the for loop of flushToolCallBuffers over the snapshot entries
FlushLoop(r, entries, throwOnInvalid) ==
    IF entries = <<>> THEN [p |-> r.p, out |-> r.out, threw |-> FALSE]
    ELSE FlushEntry(r, entries, throwOnInvalid, tryParseJSONObject(Head(entries).args))

\* returns the fields, the parts reported so far and whether it threw
flushToolCallBuffers(r, throwOnInvalid) == FlushLoop(r, r.p.toolCallBuffers, throwOnInvalid)

\* no fragment is skipped: the check of completedToolCallIndices left out
SkipsNoFragment(p, idx) == FALSE

\* a fragment for a completed index is skipped
SkipsFragment(p, idx) == idx \in p.completedToolCallIndices

\* the buffer of tc's index with the fragment tc merged in
MergedBuffer(old, tc) ==
    [old EXCEPT !.id = IF tc.id # None /\ tc.id # "" THEN tc.id ELSE @,
                !.name = IF tc.name # None /\ tc.name # "" THEN tc.name ELSE @,
                !.args = IF tc.arguments # None THEN @ \o tc.arguments ELSE @]

\* one iteration of the loop over delta.tool_calls, for the fragment tc of index idx
MergeToolCall(r, tc, idx) ==
    IF SkipsFragment(r.p, idx) THEN [p |-> r.p, out |-> r.out]
    ELSE tryEmitBufferedToolCall(
             [p |-> [r.p EXCEPT !.toolCallBuffers =
                                    BufferSet(@, MergedBuffer(BufferGet(@, idx), tc)),
                                !.outputTokenCount =
                                    IF tc.arguments # None
                                    THEN @ + Ceil4(Len(tc.arguments)) ELSE @],
              out |-> r.out],
             idx)

RECURSIVE MergeToolCalls(_, _)
\* for (const tc of toolCalls)
MergeToolCalls(r, toolCalls) ==
    IF toolCalls = <<>> THEN [p |-> r.p, out |-> r.out]
    ELSE MergeToolCalls(MergeToolCall(r, Head(toolCalls),
                                      IF Head(toolCalls).index = NoIndex THEN 0
                                      ELSE Head(toolCalls).index),
                        Tail(toolCalls))

(***************************************************************************)
(* State.                                                                  *)
(***************************************************************************)
VARIABLES
    provider,   \* the decoder fields of the provider instance
    pc,         \* per request: "idle", "fetching", "loop", "reading", "returned", "cancelled", "failed"
    input,      \* per request: the stream its response body delivers
    next,       \* per request: the number of the chunk the next read returns
    cancelled,  \* per request: token.isCancellationRequested
    events,     \* per request: the parts reported to its progress
    call,       \* per request: the arguments of provideLanguageModelChatResponse
    fetches,    \* per request: the calls of fetch it has made, each the key it sent
    response,   \* per request: the response fetch resolved with, if it has
    stats,      \* the calls of statsManager.recordRequest, in order
    enabledProviders,   \* the setting chatglmRouter.enabledProviders
    secrets,    \* the secret storage: the value of every key that holds one
    prompts,    \* per request: the number of input boxes shown for it
    listing,    \* the last call of prepareLanguageModelChatInformation: what it
                \* read, the list it returned and _chatEndpoints
    reader,     \* the reading loop of processStreamingResponse over a body of
                \* text: the chunks of the body, the number read, the line
                \* buffer and the payloads handed on
    thinkingCtor,   \* the host defines vscode.LanguageModelThinkingPart
    statistics      \* the StatisticsManager over the host's globalState: the
                    \* objects it has handed out, the one stored, the calls
                    \* of recordRequest, the last call settled and the
                    \* totals stored at first

(***************************************************************************)
(* processDelta.  A delta is the choices[0] part of one parsed payload:    *)
(* content ("" when absent), tool_calls (<<>> when absent),                *)
(* finish_reason (None when absent) and thinking, the value of             *)
(* choice.thinking ?? delta.thinking: given or not, its text ("" when it   *)
(* names none) and its id.  The metadata of a thinking object is left out. *)
(***************************************************************************)
NoThinking == [given |-> FALSE, text |-> "", id |-> None]

Thinking(text, id) == [given |-> TRUE, text |-> text, id |-> id]

LanguageModelThinkingPart(text, id) ==
    [kind |-> "Thinking", value |-> text, id |-> id, name |-> None, input |-> None,
     via |-> "thinking", index |-> NoIndex, raw |-> None]

\* a host without the constructor is taken to have it
ProbesNoCtor(ctor) == TRUE

\* const ThinkingCtor = vsAny["LanguageModelThinkingPart"]; if (ThinkingCtor) ...
ProbesCtor(ctor) == ctor

\* the thinking part of a delta is reported when the host can take it and
\* it has text
ThinkingPart(r, delta) ==
    IF delta.thinking.given /\ ProbesCtor(thinkingCtor) /\ delta.thinking.text # ""
    THEN [p |-> r.p,
          out |-> Append(r.out, LanguageModelThinkingPart(delta.thinking.text,
                                                          delta.thinking.id))]
    ELSE r

\* the bookkeeping after processTextContent returned t
CountContent(t, content) ==
    [p |-> [t.p EXCEPT !.hasEmittedAssistantText = @ \/ t.emittedText,
                       !.outputTokenCount = @ + Ceil4(Len(content))],
     out |-> t.out]

\* if (deltaObj?.content) { ... }
ContentPart(r, delta) ==
    IF delta.content = "" THEN r
    ELSE CountContent(processTextContent(r, delta.content), delta.content)

\* the begin-tool-calls hint: one " " text part before the first tool calls that
\* follow assistant text
HintPart(r, delta) ==
    IF /\ ~r.p.emittedBeginToolCallsHint
       /\ r.p.hasEmittedAssistantText
       /\ Len(delta.tool_calls) > 0
    THEN [p |-> [r.p EXCEPT !.emittedBeginToolCallsHint = TRUE],
          out |-> Append(r.out, LanguageModelTextPart(" ", "hint"))]
    ELSE r

\* the finish_reason values after which processDelta flushes
FlushesOnFinish(finish) == finish = "tool_calls" \/ finish = "stop"

FinishPart(r, delta) ==
    IF FlushesOnFinish(delta.finish_reason) THEN flushToolCallBuffers(r, TRUE)
    ELSE [p |-> r.p, out |-> r.out, threw |-> FALSE]

\* the tool calls of the delta before its content
ToolCallsThenContent(r, delta) ==
    ContentPart(MergeToolCalls(HintPart(r, delta), delta.tool_calls), delta)

\* the content of the delta, then its tool calls
ContentThenToolCalls(r, delta) ==
    MergeToolCalls(HintPart(ContentPart(r, delta), delta), delta.tool_calls)

\* returns the fields, the parts reported so far and whether it threw
processDelta(r, delta) ==
    FinishPart(ContentThenToolCalls(ThinkingPart(r, delta), delta), delta)

(***************************************************************************)
(* The body of the read loop of processStreamingResponse, for one line.    *)
(* A line is "delta" (data: with a JSON payload that has choices[0]),      *)
(* "done" (data: [DONE]), "malformed" (data: with a payload on which       *)
(* JSON.parse throws) or "skip" (no data: prefix).                         *)
(***************************************************************************)
\* a catch that passes the exception on: it leaves the read loop
RethrowsAll(threw) == threw

\* the catch around JSON.parse and processDelta: TRUE when an exception thrown
\* in the try block leaves the read loop
Rethrows(threw) == FALSE

\* the try block around processDelta
TryDelta(d) == [p |-> d.p, out |-> d.out, threw |-> Rethrows(d.threw)]

\* the [DONE] branch; the flush with throwOnInvalid false never throws
DonePart(r) == flushActiveTextToolCall(flushToolCallBuffers(r, FALSE)) @@ [threw |-> FALSE]

processLine(r, line) ==
    CASE line.kind = "done" -> DonePart(r)
      [] line.kind = "delta" -> TryDelta(processDelta(r, line.delta))
      [] line.kind = "malformed" -> TryDelta([p |-> r.p, out |-> r.out, threw |-> TRUE])
      [] OTHER -> [p |-> r.p, out |-> r.out, threw |-> FALSE]

RECURSIVE processLines(_, _)

\* the loop goes on with the next line unless an exception left it
NextLine(r, lines) == IF r.threw THEN r ELSE processLines(r, lines)

\* for (const line of lines)
processLines(r, lines) ==
    IF lines = <<>> THEN [p |-> r.p, out |-> r.out, threw |-> FALSE]
    ELSE NextLine(processLine(r, Head(lines)), Tail(lines))

\* the finally block of processStreamingResponse
ClearedInFinally(p) ==
    [p EXCEPT !.toolCallBuffers = <<>>,
              !.completedToolCallIndices = {},
              !.hasEmittedAssistantText = FALSE,
              !.emittedBeginToolCallsHint = FALSE,
              !.textToolParserBuffer = "",
              !.textToolActive = NoTextToolActive,
              !.emittedTextToolCallKeys = {}]

(***************************************************************************)
(* Streams.  A stream is the sequence of chunks the reader returns; a      *)
(* chunk is the sequence of complete lines it ends.                        *)
(***************************************************************************)
ToolCallFragment(index, id, name, arguments) ==
    [index |-> index, id |-> id, name |-> name, arguments |-> arguments]

NoDelta == [content |-> "", tool_calls |-> <<>>, finish_reason |-> None, thinking |-> NoThinking]

ContentLine(content) == [kind |-> "delta", delta |-> [NoDelta EXCEPT !.content = content]]

ToolCallsLine(toolCalls) == [kind |-> "delta", delta |-> [NoDelta EXCEPT !.tool_calls = toolCalls]]

FinishLine(reason) == [kind |-> "delta", delta |-> [NoDelta EXCEPT !.finish_reason = reason]]

DoneLine == [kind |-> "done", delta |-> NoDelta]

\* a data: line whose payload is no JSON
MalformedLine == [kind |-> "malformed", delta |-> NoDelta]

RECURSIVE Join(_)
\* the concatenation of a sequence of strings
Join(strings) == IF strings = <<>> THEN "" ELSE Head(strings) \o Join(Tail(strings))

RECURSIVE Cuts(_, _)
\* the ways of cutting text into at most n non-empty pieces
Cuts(text, n) ==
    {<<text>>} \cup
    (IF n <= 1 THEN {}
     ELSE UNION {{<<Slice(text, 0, i)>> \o rest : rest \in Cuts(SliceFrom(text, i), n - 1)} :
                 i \in 1..(Len(text) - 1)})

\* the content fragments of a cut, one chunk each, the [DONE] line in the last
CutStream(pieces) ==
    [k \in 1..Len(pieces) |->
        IF k < Len(pieces) THEN <<ContentLine(pieces[k])>>
        ELSE <<ContentLine(pieces[k]), DoneLine>>]

RECURSIVE SegmentCuts(_, _)
\* the ways of cutting the text made of the segments segs into at most n pieces
\* at the ends of segments
SegmentCuts(segs, n) ==
    {<<Join(segs)>>} \cup
    (IF n <= 1 THEN {}
     ELSE UNION {{<<Join(SubSeq(segs, 1, i))>> \o rest :
                     rest \in SegmentCuts(SubSeq(segs, i + 1, Len(segs)), n - 1)} :
                 i \in 1..(Len(segs) - 1)})

\* an inline call whose argument text is no JSON
MalformedCall == "<|tool_call_begin|>bar<|tool_call_argument_begin|>no<|tool_call_end|>"

\* the malformed call, then text and a valid call; the markers are whole segments
MalformedSegments ==
    <<"<|tool_call_begin|>bar<|tool_call_argument_begin|>", "n", "o", "<|tool_call_end|>", "Z",
      "<|tool_call_begin|>g<|tool_call_argument_begin|>", "{", "}", "<|tool_call_end|>">>

MalformedCallStreams ==
    {CutStream(pieces) : pieces \in SegmentCuts(MalformedSegments, MaxPieces)}

\* a valid call and the text after it; the argument text is cut at any offset
ArgumentSegments ==
    <<"<|tool_call_begin|>foo<|tool_call_argument_begin|>", "{", "\"", "x", "\"", ":", "1", "}",
      "<|tool_call_end|> done">>

ArgumentCutStreams ==
    {CutStream(pieces) : pieces \in SegmentCuts(ArgumentSegments, MaxPieces)}

\* a valid inline call with a declared index, between visible text that ends in '<'
TextCall == "X<<|tool_call_begin|>f:1<|tool_call_argument_begin|>{\"k\":1}<|tool_call_end|>Y"

\* a sentinel around another
TextTokens == "<|tool_call_<|tool_call_end|>end|>"

\* a section-boundary token inside visible text
TextSection == "x<|s_section_end|>y"

InlineTexts == {TextCall, TextTokens, TextSection}

CutStreams == {CutStream(pieces) : pieces \in UNION {Cuts(t, MaxPieces) : t \in InlineTexts}}

\* the same logical call, search({"q":"x"}), on either channel
InlineSearch == "<|tool_call_begin|>search<|tool_call_argument_begin|>{\"q\":\"x\"}<|tool_call_end|>"

LineAlphabet ==
    {ToolCallsLine(<<ToolCallFragment(0, None, "search", "{\"q\":")>>),
     ToolCallsLine(<<ToolCallFragment(0, None, None, "\"x\"}")>>),
     ToolCallsLine(<<ToolCallFragment(0, "c1", "search", "{ \"q\" : \"x\" }")>>),
     ToolCallsLine(<<ToolCallFragment(1, None, "calc", "[1]")>>),
     FinishLine("tool_calls"),
     FinishLine("stop"),
     ContentLine(InlineSearch),
     DoneLine}

RECURSIVE LineSeqs(_)
\* the sequences of at most n lines of the alphabet
LineSeqs(n) ==
    IF n = 0 THEN {<<>>}
    ELSE LineSeqs(n - 1) \cup
         {Append(ls, l) : ls \in {x \in LineSeqs(n - 1) : Len(x) = n - 1}, l \in LineAlphabet}

\* one line per chunk
LineStream(lines) == [k \in 1..Len(lines) |-> <<lines[k]>>]

LineStreams == {LineStream(ls) : ls \in LineSeqs(MaxLines)}

\* the line streams of fewer than MaxLines lines with a malformed line put in at
\* any place
MalformedStreams ==
    UNION {{LineStream([k \in 1..(Len(ls) + 1) |->
                           IF k <= i THEN ls[k]
                           ELSE IF k = i + 1 THEN MalformedLine
                           ELSE ls[k - 1]]) : i \in 0..Len(ls)} :
           ls \in LineSeqs(MaxLines - 1)}

\* text with a header closed by the end marker, then three structured indices in
\* one delta, one of them never named, and the finish line
BatchStream ==
    <<  <<ContentLine("hi<|tool_call_begin|>foo<|tool_call_end|>"),
          ToolCallsLine(<<ToolCallFragment(0, "c1", "search", "{\"q\":\"x\"}"),
                          ToolCallFragment(1, "c2", "calc", "{\"n\":"),
                          ToolCallFragment(2, None, None, "{}")>>)>>,
        <<ToolCallsLine(<<ToolCallFragment(1, None, None, "2}")>>),
          FinishLine("tool_calls"), DoneLine>>  >>

\* two structured indices pending at finish_reason "stop": the first never parses,
\* the second parses but was never named
StopStream ==
    <<  <<ToolCallsLine(<<ToolCallFragment(0, None, "search", "{\"q\":"),
                          ToolCallFragment(1, None, None, "{}")>>)>>,
        <<FinishLine("stop")>>  >>

\* two inline calls f with the declared index 1 and different arguments; the
\* first is complete before a blank and then its end marker arrive
RepeatStream ==
    <<  <<ContentLine("<|tool_call_begin|>f:1<|tool_call_argument_begin|>{}")>>,
        <<ContentLine(" ")>>,
        <<ContentLine("<|tool_call_end|>Y")>>,
        <<ContentLine("<|tool_call_begin|>f:1<|tool_call_argument_begin|>{\"k\":1}<|tool_call_end|>"),
          DoneLine>>  >>

\* a header closed by the end marker between texts, twice
BareStream ==
    <<  <<ContentLine("a<|tool_call_begin|>foo<|tool_call_end|>b")>>,
        <<ContentLine("<|tool_call_begin|> foo <|tool_call_end|>c")>>,
        <<DoneLine>>  >>

\* a delta with content, tool calls and a finish_reason: text around an inline
\* call, a structured call that is complete, one that is never named
FullDelta ==
    [NoDelta EXCEPT
        !.content = "hi<|tool_call_begin|>foo<|tool_call_end|>",
        !.tool_calls = <<ToolCallFragment(0, "c1", "search", "{\"q\":\"x\"}"),
                         ToolCallFragment(2, None, None, "{}")>>,
        !.finish_reason = "tool_calls"]

FullStream == <<  <<[kind |-> "delta", delta |-> FullDelta]>>, <<DoneLine>>  >>

\* the thinking values of a delta: a string, an empty string, an object with
\* text and id, an object without text
Thinkings == {Thinking("why", None), Thinking("", None), Thinking("how", "t1"),
              Thinking("", "t2")}

\* deltas that carry a thinking value: one with all the rest, one with nothing
\* else, one after an inline call was left open
ThinkingStreams ==
    {<<  <<[kind |-> "delta", delta |-> [FullDelta EXCEPT !.thinking = t]]>>,
         <<[kind |-> "delta", delta |-> [NoDelta EXCEPT !.thinking = t]]>>,
         <<ContentLine("<|tool_call_begin|>f<|tool_call_argument_begin|>{\"k\":")>>,
         <<[kind |-> "delta",
            delta |-> [NoDelta EXCEPT !.thinking = t, !.content = "1}"]]>>,
         <<DoneLine>>  >> : t \in Thinkings}

Streams ==
    CutStreams \cup LineStreams \cup MalformedStreams \cup MalformedCallStreams
    \cup ArgumentCutStreams
    \cup {BatchStream, StopStream, RepeatStream, BareStream, FullStream}

\* the streams of two requests in flight together
ConcurrentStreams ==
    {LineStream(<<ContentLine("hi"), DoneLine>>),
     LineStream(<<ToolCallsLine(<<ToolCallFragment(0, None, "search", "{\"q\":")>>),
                  ToolCallsLine(<<ToolCallFragment(0, None, None, "\"x\"}")>>),
                  FinishLine("tool_calls")>>),
     LineStream(<<ContentLine("<|tool_call_begin|>foo<|tool_call_argument_begin|>{\"x\":"),
                  ContentLine("1}<|tool_call_end|> done"), DoneLine>>)}

(***************************************************************************)
(* The model list.  A model information entry is its id, name, tooltip and *)
(* token limits; the em dash of the tooltips is written "--".              *)
(***************************************************************************)
ApiKeySecret == "chatglm-router.apiKey.chatglm"

\* Object.values(PROVIDERS)
getAllProviders ==
    <<  [id |-> "chatglm-coding", name |-> "ChatGLM Coding",
         apiKeySecret |-> ApiKeySecret,
         defaultMaxTokens |-> 8192, defaultContextLength |-> 128000],
        [id |-> "chatglm-general", name |-> "ChatGLM General",
         apiKeySecret |-> ApiKeySecret,
         defaultMaxTokens |-> 8192, defaultContextLength |-> 128000]  >>

\* the static list is empty
getStaticModelsForProvider(providerId) == <<>>

\* fetchModels throws
FetchFailed == <<"<error>">>

TooltipSuffix == "API key not configured"

\* the larger of two numbers
Max(a, b) == IF a > b THEN a ELSE b

\* one entry per model; opts is the tooltip suffix, None without one
buildModelInformation(models, p, opts) ==
    [k \in 1..Len(models) |->
        [id |-> p.id \o ":" \o models[k],
         name |-> models[k] \o " (" \o p.name \o ")",
         tooltip |-> IF opts = None THEN p.name ELSE p.name \o " -- " \o opts,
         maxInputTokens |-> Max(1, p.defaultContextLength - p.defaultMaxTokens),
         maxOutputTokens |-> p.defaultMaxTokens]]

\* the entry that makes a provider without key and without static models visible
Placeholder(p) ==
    [id |-> p.id \o ":__no_api_key__",
     name |-> p.name \o " (API key not configured)",
     tooltip |-> p.name \o " -- API key not configured",
     maxInputTokens |-> Max(1, p.defaultContextLength - p.defaultMaxTokens),
     maxOutputTokens |-> p.defaultMaxTokens]

\* the entries of one enabled provider: fetched with a key, static ones when the
\* fetch throws; without a key the static ones or else the placeholder
InfosOf(p, apiKey, models) ==
    IF apiKey
    THEN IF models = FetchFailed
         THEN IF StartsWithAt(p.id, "chatglm", 0)
              THEN buildModelInformation(getStaticModelsForProvider(p.id), p, TooltipSuffix)
              ELSE <<>>
         ELSE buildModelInformation(models, p, None)
    ELSE IF StartsWithAt(p.id, "chatglm", 0)
         THEN IF Len(getStaticModelsForProvider(p.id)) > 0
              THEN buildModelInformation(getStaticModelsForProvider(p.id), p, TooltipSuffix)
              ELSE <<Placeholder(p)>>
         ELSE <<>>

\* the text before the first ":" of s, all of s when it has none
UpToColon(s) == IF IndexOf(s, ":") = -1 THEN s ELSE Slice(s, 0, IndexOf(s, ":"))

\* parts[parts.length > 1 ? 1 : 0] of id.split(":")
BaseModelId(id) ==
    IF IndexOf(id, ":") = -1 THEN id
    ELSE UpToColon(SliceFrom(id, IndexOf(id, ":") + 1))

\* every entry is kept
KeepsAll(allInfos, seenBaseModels, uniqueInfos) == uniqueInfos \o allInfos

RECURSIVE Deduplicate(_, _, _)
\* keeps the first entry of every base model id
Deduplicate(allInfos, seenBaseModels, uniqueInfos) ==
    IF allInfos = <<>> THEN uniqueInfos
    ELSE IF BaseModelId(Head(allInfos).id) \in seenBaseModels
         THEN Deduplicate(Tail(allInfos), seenBaseModels, uniqueInfos)
         ELSE Deduplicate(Tail(allInfos),
                          seenBaseModels \cup {BaseModelId(Head(allInfos).id)},
                          Append(uniqueInfos, Head(allInfos)))

RECURSIVE AllInfos(_, _, _, _)
\* the entries of the enabled providers, in the order of the providers
AllInfos(providers, enabledProviderIds, stored, fetched) ==
    IF providers = <<>> THEN <<>>
    ELSE (IF Head(providers).id \in enabledProviderIds
          THEN InfosOf(Head(providers), Head(providers).apiKeySecret \in stored,
                       fetched[Head(providers).id])
          ELSE <<>>)
         \o AllInfos(Tail(providers), enabledProviderIds, stored, fetched)

\* enabledProviderIds is the setting, stored the secrets that have a value,
\* fetched what fetchModels gives for each provider
prepareLanguageModelChatInformation(enabledProviderIds, stored, fetched) ==
    Deduplicate(AllInfos(getAllProviders, enabledProviderIds, stored, fetched), {}, <<>>)

\* this._chatEndpoints = uniqueInfos.map(...)
ChatEndpoints(uniqueInfos) ==
    [k \in 1..Len(uniqueInfos) |->
        [model |-> uniqueInfos[k].id,
         modelMaxPromptTokens |-> uniqueInfos[k].maxInputTokens
                                     + uniqueInfos[k].maxOutputTokens]]

\* the ids of the setting: the two providers and one that is not a provider
ProviderIds == {"chatglm-coding", "chatglm-general", "custom"}

\* what fetchModels gives: an error, or the model ids of the endpoint
ModelLists == {FetchFailed, <<>>, <<"glm-4.7">>, <<"glm-4.7", "glm-4.5">>}

host == <<enabledProviders, secrets, prompts, listing, thinkingCtor, statistics>>

vars == <<provider, pc, input, next, cancelled, events, call, fetches, response, stats,
          enabledProviders, secrets, prompts, listing, reader, thinkingCtor,
          statistics>>

RECURSIVE estimateMessagesTokens(_)
\* the messages are the lengths of their text parts: a fourth of each, rounded up
estimateMessagesTokens(msgs) ==
    IF msgs = <<>> THEN 0
    ELSE Ceil4(Head(msgs)) + estimateMessagesTokens(Tail(msgs))

\* the tools are their number and the length of their JSON text
estimateToolTokens(tools) == IF tools.count = 0 THEN 0 ELSE Ceil4(tools.json)

\* inputTokenCount + toolTokenCount > tokenLimit
ExceedsTokenLimit(c) ==
    estimateMessagesTokens(c.messages) + estimateToolTokens(c.tools)
        > Max(1, c.maxInputTokens)

\* the input box is shown whenever no key is stored, silent or not
PromptsEvenSilent(c, store) == ApiKeySecret \notin DOMAIN store

\* ensureApiKey shows the input box: no key is stored and the request is not silent
Prompts(c, store) == ApiKeySecret \notin DOMAIN store /\ ~c.silent

\* ensureApiKey stores the answer: the box was shown and the answer, trimmed, is
\* not empty
StoresKey(c, store) ==
    Prompts(c, store) /\ c.entered # None /\ Trim(c.entered) # ""

\* secrets.store(name, value)
StoreSecret(store, name, value) ==
    [n \in DOMAIN store \cup {name} |-> IF n = name THEN value ELSE store[n]]

\* secrets.delete(name)
DeleteSecret(store, name) == [n \in DOMAIN store \ {name} |-> store[n]]

\* the key ensureApiKey returns, None for undefined
ensureApiKey(c, store) ==
    IF ApiKeySecret \in DOMAIN store THEN store[ApiKeySecret]
    ELSE IF StoresKey(c, store) THEN Trim(c.entered)
    ELSE None

\* the checks before the request is sent, without the one of the token limit
RefusesNoLimit(c, apiKey) ==
    \/ apiKey = None
    \/ ~c.valid
    \/ c.tools.count > 128

\* the checks of provideLanguageModelChatResponse before the request is sent:
\* TRUE when one of them throws
Refuses(c, apiKey) ==
    \/ apiKey = None
    \/ ~c.valid
    \/ c.tools.count > 128
    \/ ExceedsTokenLimit(c)

NoTools == [count |-> 0, json |-> 0]

\* no response yet
NoResponse == [ok |-> FALSE, body |-> FALSE, arrived |-> FALSE]

\* the responses fetch resolves with: response.ok and whether response.body is set
Responses == [ok : BOOLEAN, body : BOOLEAN, arrived : {TRUE}]

\* a silent request that is valid and fits the token limit
GoodCall ==
    [silent |-> TRUE, entered |-> None, valid |-> TRUE, messages |-> <<8>>, tools |-> NoTools,
     maxInputTokens |-> 4]

\* the requests the host makes: silent or not, with the prompt dismissed or
\* answered with blanks or with a key, valid or not, with no tool, one tool or 129 tools, around the token limit
Calls ==
    [silent : BOOLEAN, entered : {None, " ", " k2 "}, valid : BOOLEAN,
     messages : {<<>>, <<4>>, <<5>>, <<4, 5>>},
     tools : {NoTools, [count |-> 1, json |-> 8], [count |-> 129, json |-> 8]},
     maxInputTokens : {-1, 1, 2, 3}]

(***************************************************************************)
(* The lines of the body.  Each chunk is appended to the buffer, the buffer *)
(* is split at the line feeds, the last piece is kept for the next chunk.   *)
(***************************************************************************)
\* nothing is kept of the text after the last line feed
DropsRest(rest) == ""

\* buffer = lines.pop() || ""
KeepsRest(rest) == rest

\* what the loop over the lines does with one line: a line that does not start
\* with "data: " is skipped, of any other the text after it is handed on
HandLine(payloads, line) ==
    IF StartsWithAt(line, "data: ", 0) THEN Append(payloads, SliceFrom(line, 6))
    ELSE payloads

RECURSIVE SplitLines(_, _)
\* buffer.split("\n"), the lines before the last handed to the loop in order
SplitLines(text, payloads) ==
    IF IndexOf(text, "\n") = -1
    THEN [buffer |-> KeepsRest(text), payloads |-> payloads]
    ELSE SplitLines(SliceFrom(text, IndexOf(text, "\n") + 1),
                    HandLine(payloads, Slice(text, 0, IndexOf(text, "\n"))))

\* the reading loop before its first read
ReaderOf(chunks) == [chunks |-> chunks, read |-> 0, buffer |-> "", payloads |-> <<>>]

\* one turn of the loop: buffer += decoder.decode(value), split, hand on
ReadInto(rd, lines) ==
    [rd EXCEPT !.read = @ + 1, !.buffer = lines.buffer, !.payloads = lines.payloads]

\* bodies of lines that end in a line feed: data lines, an empty line, a comment
\* line, the [DONE] line
Bodies ==
    {"data: a\n\ndata: bc\n",
     ": c\ndata: {}\ndata: [DONE]\n",
     "data: data: \ndata:x\n\n"}

\* the ways the transport cuts a body into chunks
BodyCuts == UNION {Cuts(body, MaxPieces + 1) : body \in Bodies}

\* the secret storage without a value, and with a key saved earlier
NoSecrets == [n \in {} |-> ""]

StoredKey == [n \in {ApiKeySecret} |-> "k1"]

(***************************************************************************)
(* StatisticsManager.  The statistics are a map from provider id to its     *)
(* totals and a map from model id to the counts of the model; lastUsed, a   *)
(* time stamp, is left out.  The host keeps the value of globalState in     *)
(* memory: get gives the object it keeps (a host that shares) or a copy of  *)
(* it, update keeps a copy of what it is given.  Objects are cells of a     *)
(* heap, 0 stands for undefined.                                            *)
(***************************************************************************)
MaxCalls == 3

MaxResets == 1

createEmptyStatistics == [version |-> "1.0.0", providers |-> [id \in {} |-> 0]]

NewProvider == [models |-> [id \in {} |-> 0], totalRequests |-> 0, totalTokens |-> 0]

NewModel(modelId) ==
    [modelId |-> modelId, requestCount |-> 0, totalInputTokens |-> 0, totalOutputTokens |-> 0]

\* if (!stats.providers[providerId]) { ... }
WithProvider(data, providerId) ==
    IF providerId \in DOMAIN data.providers THEN data
    ELSE [data EXCEPT !.providers = @ @@ (providerId :> NewProvider)]

\* if (!provider.models[modelId]) { ... }
WithModel(data, providerId, modelId) ==
    IF modelId \in DOMAIN data.providers[providerId].models THEN data
    ELSE [data EXCEPT !.providers[providerId].models = @ @@ (modelId :> NewModel(modelId))]

\* the counts of the model only
CountsModelOnly(data, c) ==
    [data EXCEPT
        !.providers[c.providerId].models[c.modelId].requestCount = @ + 1,
        !.providers[c.providerId].models[c.modelId].totalInputTokens = @ + c.inputTokens,
        !.providers[c.providerId].models[c.modelId].totalOutputTokens = @ + c.outputTokens]

\* the counts of the model and the totals of its provider
Counts(data, c) ==
    [data EXCEPT
        !.providers[c.providerId].models[c.modelId].requestCount = @ + 1,
        !.providers[c.providerId].models[c.modelId].totalInputTokens = @ + c.inputTokens,
        !.providers[c.providerId].models[c.modelId].totalOutputTokens = @ + c.outputTokens,
        !.providers[c.providerId].totalRequests = @ + 1,
        !.providers[c.providerId].totalTokens = @ + c.inputTokens + c.outputTokens]

\* what recordRequest makes of the statistics it read, for the call c
Record(data, c) ==
    Counts(WithModel(WithProvider(data, c.providerId), c.providerId, c.modelId), c)

\* a call of recordRequest that has not been made
NoCall ==
    [pc |-> "idle", providerId |-> None, modelId |-> None, inputTokens |-> 0,
     outputTokens |-> 0, ref |-> 0]

NoStatistics ==
    [shares |-> FALSE, heap |-> <<>>, stored |-> 0,
     calls |-> [c \in 1..MaxCalls |-> NoCall], resets |-> 0, last |-> "none",
     before |-> [totalRequests |-> 0, totalTokens |-> 0]]

\* statistics of one earlier request
EarlierStatistics ==
    Record(createEmptyStatistics,
           [providerId |-> "chatglm-coding", modelId |-> "glm-4.7",
            inputTokens |-> 2, outputTokens |-> 1])

\* the object get gives: nothing when nothing is stored, the object the host
\* keeps or a new copy of it
GetStored(st) ==
    IF st.stored = 0 THEN [heap |-> st.heap, ref |-> 0]
    ELSE IF st.shares THEN [heap |-> st.heap, ref |-> st.stored]
    ELSE [heap |-> Append(st.heap, st.heap[st.stored]), ref |-> Len(st.heap) + 1]

\* globalState.update(STORAGE_KEY, data): the host keeps a copy of data
UpdateStored(st, heap, data) ==
    [st EXCEPT !.heap = Append(heap, data), !.stored = Len(heap) + 1]

\* no call of prepareLanguageModelChatInformation yet
NoListing ==
    [called |-> FALSE, enabledProviderIds |-> {}, stored |-> {},
     fetched |-> [id \in {"chatglm-coding", "chatglm-general"} |-> <<>>], infos |-> <<>>,
     chatEndpoints |-> <<>>]

InitRequests(R, S, C, K) ==
    /\ provider = InitialFields
    /\ pc = [r \in R |-> "idle"]
    /\ input \in [R -> S]
    /\ next = [r \in R |-> 1]
    /\ cancelled = [r \in R |-> FALSE]
    /\ events = [r \in R |-> <<>>]
    /\ call \in [R -> C]
    /\ fetches = [r \in R |-> <<>>]
    /\ response = [r \in R |-> NoResponse]
    /\ stats = <<>>
    /\ enabledProviders = {"chatglm-coding"}
    /\ secrets \in K
    /\ prompts = [r \in R |-> 0]
    /\ listing = NoListing

\* the requests, with no body of text being read
InitWith(R, S, C, K) ==
    /\ InitRequests(R, S, C, K)
    /\ reader = ReaderOf(<<>>)
    /\ thinkingCtor = FALSE
    /\ statistics = NoStatistics

\* requests whose deltas carry thinking values, on a host with the thinking
\* part and on one without
InitThinking(R) ==
    /\ InitRequests(R, ThinkingStreams, {GoodCall}, {StoredKey})
    /\ reader = ReaderOf(<<>>)
    /\ thinkingCtor \in BOOLEAN
    /\ statistics = NoStatistics

\* requests that are sent, with the key stored
InitOver(R, S) == InitWith(R, S, {GoodCall}, {StoredKey})

\* a request that starts without the reset: the fields stay as the last one left them
KeepsFields(p) == p

\* the nine assignments at the start of provideLanguageModelChatResponse
ResetFields(p) == InitialFields

\* with the key ensureApiKey returned: a check that throws fails the request,
\* otherwise fetch is called with the key in the Authorization header
Sends(r, apiKey) ==
    /\ pc' = [pc EXCEPT ![r] = IF Refuses(call[r], apiKey) THEN "failed" ELSE "fetching"]
    /\ fetches' = [fetches EXCEPT ![r] =
                      IF Refuses(call[r], apiKey) THEN @ ELSE Append(@, apiKey)]

\* provideLanguageModelChatResponse up to the call of fetch: the reset of the
\* decoder fields, ensureApiKey, then the checks; one that throws fails the
\* request, otherwise the request is sent
Begin(r) ==
    /\ pc[r] = "idle"
    /\ provider' = ResetFields(provider)
    /\ prompts' = [prompts EXCEPT ![r] = IF Prompts(call[r], secrets) THEN @ + 1 ELSE @]
    /\ secrets' = IF StoresKey(call[r], secrets)
                  THEN StoreSecret(secrets, ApiKeySecret, Trim(call[r].entered))
                  ELSE secrets
    /\ Sends(r, ensureApiKey(call[r], secrets))
    /\ UNCHANGED <<input, next, cancelled, events, call, response, stats,
                   enabledProviders, listing, reader, thinkingCtor, statistics>>

\* a response of any status is taken for a stream as long as it has a body
AcceptsAnyStatus(resp) == resp.body

\* neither "if (!response.ok)" nor "if (!response.body)" throws
Accepts(resp) == resp.ok /\ resp.body

\* fetch resolves with a response: a status that is not a success, or no body,
\* throws; otherwise processStreamingResponse takes the body
Respond(r, resp) ==
    /\ pc[r] = "fetching"
    /\ response' = [response EXCEPT ![r] = resp]
    /\ pc' = [pc EXCEPT ![r] = IF Accepts(resp) THEN "loop" ELSE "failed"]
    /\ UNCHANGED <<provider, input, next, cancelled, events, call, fetches, stats>>
    /\ UNCHANGED <<host, reader>>

\* fetch rejects: the request fails
FetchFails(r) ==
    /\ pc[r] = "fetching"
    /\ pc' = [pc EXCEPT ![r] = "failed"]
    /\ UNCHANGED <<provider, input, next, cancelled, events, call, fetches, response, stats>>
    /\ UNCHANGED <<host, reader>>

\* nothing is recorded
RecordsNothing(r, p) == stats

\* statsManager.recordRequest(provider.id, model.id, inputTokenCount, this._outputTokenCount)
recordRequest(r, p) ==
    Append(stats, [request |-> r,
                   inputTokens |-> estimateMessagesTokens(call[r].messages),
                   outputTokens |-> p.outputTokenCount])

\* while (!token.isCancellationRequested) { await reader.read() ...
AwaitRead(r) ==
    /\ pc[r] = "loop"
    /\ ~cancelled[r]
    /\ pc' = [pc EXCEPT ![r] = "reading"]
    /\ UNCHANGED <<provider, input, next, cancelled, events, call, fetches, response, stats>>
    /\ UNCHANGED <<host, reader>>

\* the loop condition sees the cancellation: the loop ends, finally runs,
\* processStreamingResponse returns and the request is recorded
ObserveCancel(r) ==
    /\ pc[r] = "loop"
    /\ cancelled[r]
    /\ provider' = ClearedInFinally(provider)
    /\ pc' = [pc EXCEPT ![r] = "cancelled"]
    /\ stats' = recordRequest(r, provider)
    /\ UNCHANGED <<input, next, cancelled, events, call, fetches, response>>
    /\ UNCHANGED <<host, reader>>

\* the lines of a chunk were processed with result res: the loop goes on, or the
\* exception that left it runs finally and fails the request
ChunkProcessed(r, res) ==
    /\ events' = [events EXCEPT ![r] = res.out]
    /\ provider' = IF res.threw THEN ClearedInFinally(res.p) ELSE res.p
    /\ pc' = [pc EXCEPT ![r] = IF res.threw THEN "failed" ELSE "loop"]

\* reader.read() returns a chunk; its lines are processed
ChunkArrives(r) ==
    /\ pc[r] = "reading"
    /\ next[r] <= Len(input[r])
    /\ ChunkProcessed(r, processLines([p |-> provider, out |-> events[r]], input[r][next[r]]))
    /\ next' = [next EXCEPT ![r] = @ + 1]
    /\ UNCHANGED <<input, cancelled, call, fetches, response, stats>>
    /\ UNCHANGED <<host, reader>>

\* reader.read() returns done: break, finally runs, processStreamingResponse
\* returns and the request is recorded
StreamEnds(r) ==
    /\ pc[r] = "reading"
    /\ next[r] > Len(input[r])
    /\ provider' = ClearedInFinally(provider)
    /\ pc' = [pc EXCEPT ![r] = "returned"]
    /\ stats' = recordRequest(r, provider)
    /\ UNCHANGED <<input, next, cancelled, events, call, fetches, response>>
    /\ UNCHANGED <<host, reader>>

\* reader.read() rejects: finally runs, the request fails
ReadFails(r) ==
    /\ pc[r] = "reading"
    /\ provider' = ClearedInFinally(provider)
    /\ pc' = [pc EXCEPT ![r] = "failed"]
    /\ UNCHANGED <<input, next, cancelled, events, call, fetches, response, stats>>
    /\ UNCHANGED <<host, reader>>

\* the host cancels the request
Cancel(r) ==
    /\ pc[r] \in {"idle", "fetching", "loop", "reading"}
    /\ ~cancelled[r]
    /\ cancelled' = [cancelled EXCEPT ![r] = TRUE]
    /\ UNCHANGED <<provider, pc, input, next, events, call, fetches, response, stats>>
    /\ UNCHANGED <<host, reader>>

NextOver(R) ==
    \E r \in R :
        \/ Begin(r)
        \/ \E resp \in Responses : Respond(r, resp)
        \/ FetchFails(r)
        \/ AwaitRead(r)
        \/ ObserveCancel(r)
        \/ ChunkArrives(r)
        \/ StreamEnds(r)
        \/ ReadFails(r)
        \/ Cancel(r)

\* one request on the provider: every stream with a request that is sent, and
\* every request with one stream, with the key stored or not
Init ==
    \/ InitOver({1}, Streams)
    \/ InitWith({1}, {StopStream}, Calls, {NoSecrets, StoredKey})
    \/ InitThinking({1})

Next == NextOver({1})

Spec == Init /\ [][Next]_vars

\* two requests in flight on the one registered provider
InitConcurrent == InitOver({1, 2}, ConcurrentStreams)

NextConcurrent == NextOver({1, 2})

SpecConcurrent == InitConcurrent /\ [][NextConcurrent]_vars

\* the streams of the requests that run one after another
SequentialStreams == ConcurrentStreams \cup {CutStream(<<TextCall>>)}

\* the states in which provideLanguageModelChatResponse has settled
Finished == {"returned", "cancelled", "failed"}

\* a request starts once every request before it has settled
BeginAfter(r) ==
    /\ \A q \in DOMAIN pc : q < r => pc[q] \in Finished
    /\ Begin(r)

\* requests run one after another on the one provider
InitSequential == InitOver({1, 2}, SequentialStreams)

NextSequential ==
    \E r \in {1, 2} :
        \/ BeginAfter(r)
        \/ \E resp \in Responses : Respond(r, resp)
        \/ FetchFails(r)
        \/ AwaitRead(r)
        \/ ObserveCancel(r)
        \/ ChunkArrives(r)
        \/ StreamEnds(r)
        \/ ReadFails(r)
        \/ Cancel(r)

SpecSequential == InitSequential /\ [][NextSequential]_vars

requestVars ==
    <<provider, pc, input, next, cancelled, events, call, fetches, response, stats>>

\* the user changes the setting chatglmRouter.enabledProviders
Configure(ids) ==
    /\ enabledProviders' = ids
    /\ UNCHANGED <<requestVars, secrets, prompts, listing, reader, thinkingCtor, statistics>>

\* the command chatglmRouter.manage saves the key entered
StoreKey ==
    /\ secrets' = StoreSecret(secrets, ApiKeySecret, "k1")
    /\ UNCHANGED <<requestVars, enabledProviders, prompts, listing, reader, thinkingCtor, statistics>>

\* the commands chatglmRouter.manage and chatglmRouter.clearApiKey delete the key
DeleteKey ==
    /\ secrets' = DeleteSecret(secrets, ApiKeySecret)
    /\ UNCHANGED <<requestVars, enabledProviders, prompts, listing, reader, thinkingCtor, statistics>>

\* the host asks for the model list; fetchModels gives fetched
Prepare(fetched) ==
    /\ listing' = [called |-> TRUE,
                   enabledProviderIds |-> enabledProviders,
                   stored |-> DOMAIN secrets,
                   fetched |-> fetched,
                   infos |-> prepareLanguageModelChatInformation(
                                enabledProviders, DOMAIN secrets, fetched),
                   chatEndpoints |-> ChatEndpoints(prepareLanguageModelChatInformation(
                                enabledProviders, DOMAIN secrets, fetched))]
    /\ UNCHANGED <<requestVars, enabledProviders, secrets, prompts, reader, thinkingCtor, statistics>>

\* reader.read() gives the next chunk of the body
ReadChunk ==
    /\ reader.read < Len(reader.chunks)
    /\ reader' = ReadInto(reader,
                          SplitLines(reader.buffer \o reader.chunks[reader.read + 1],
                                     reader.payloads))
    /\ UNCHANGED <<requestVars, host>>

\* the reading loop over every body and every cut of it
InitFrames ==
    /\ InitRequests({}, {<<>>}, {GoodCall}, {StoredKey})
    /\ reader \in {ReaderOf(chunks) : chunks \in BodyCuts}
    /\ thinkingCtor = FALSE
    /\ statistics = NoStatistics

NextFrames == ReadChunk

SpecFrames == InitFrames /\ [][NextFrames]_vars

\* the model list of the provider, with no request in flight
InitModels == InitWith({}, {<<>>}, {GoodCall}, {NoSecrets})

NextModels ==
    \/ \E ids \in SUBSET ProviderIds : Configure(ids)
    \/ StoreKey
    \/ DeleteKey
    \/ \E fetched \in [{"chatglm-coding", "chatglm-general"} -> ModelLists] : Prepare(fetched)

SpecModels == InitModels /\ [][NextModels]_vars

\* all but the statistics
others ==
    <<requestVars, enabledProviders, secrets, prompts, listing, reader, thinkingCtor>>

\* the requests whose usage is recorded
RecordedCalls ==
    {[providerId |-> p, modelId |-> m, inputTokens |-> 2,
      outputTokens |-> IF m = "glm-4.7" THEN 3 ELSE 0] :
        p \in {"chatglm-coding", "chatglm-general"}, m \in {"glm-4.7", "glm-4.5"}}

\* recordRequest is called: getStatistics calls globalState.get and awaits.
\* The calls are numbered in the order in which they are made.
CallRecord(c, args) ==
    /\ statistics.calls[c].pc = "idle"
    /\ \A b \in 1..(c - 1) : statistics.calls[b].pc # "idle"
    /\ statistics' =
          [statistics EXCEPT
              !.heap = GetStored(statistics).heap,
              !.calls[c] = [pc |-> "read", providerId |-> args.providerId,
                            modelId |-> args.modelId, inputTokens |-> args.inputTokens,
                            outputTokens |-> args.outputTokens,
                            ref |-> GetStored(statistics).ref]]
    /\ UNCHANGED others

\* the statistics the call works on: stored || this.createEmptyStatistics()
StatisticsOf(st, c) ==
    IF st.calls[c].ref = 0 THEN createEmptyStatistics ELSE st.heap[st.calls[c].ref]

\* the object the call read, with the counts the call added to it
HeapAfter(st, c) ==
    IF st.calls[c].ref = 0 THEN st.heap
    ELSE [st.heap EXCEPT ![st.calls[c].ref] = Record(StatisticsOf(st, c), st.calls[c])]

\* the call goes on after the await: it adds its counts to the object it read
\* and calls globalState.update with it
WriteBack(c) ==
    /\ statistics.calls[c].pc = "read"
    /\ statistics' =
          [UpdateStored(statistics, HeapAfter(statistics, c),
                        Record(StatisticsOf(statistics, c), statistics.calls[c]))
              EXCEPT !.calls[c].pc = "written"]
    /\ UNCHANGED others

\* update has resolved: the event is fired and recordRequest returns
Complete(c) ==
    /\ statistics.calls[c].pc = "written"
    /\ statistics' = [statistics EXCEPT !.calls[c].pc = "done", !.last = "record"]
    /\ UNCHANGED others

\* resetStatistics
Reset ==
    /\ statistics.resets < MaxResets
    /\ statistics' =
          [UpdateStored(statistics, statistics.heap, createEmptyStatistics)
              EXCEPT !.resets = @ + 1, !.last = "reset"]
    /\ UNCHANGED others

\* no call of recordRequest is under way
Quiet == \A c \in 1..MaxCalls : statistics.calls[c].pc \in {"idle", "done"}

\* nothing stored yet, or the statistics of an earlier request; a host that
\* shares the object it keeps, or one that gives copies
InitStatistics ==
    /\ InitRequests({}, {<<>>}, {GoodCall}, {StoredKey})
    /\ reader = ReaderOf(<<>>)
    /\ thinkingCtor = FALSE
    /\ \E shares \in BOOLEAN :
          \/ statistics = [NoStatistics EXCEPT !.shares = shares]
          \/ statistics = [NoStatistics EXCEPT !.shares = shares,
                                               !.heap = <<EarlierStatistics>>,
                                               !.stored = 1,
                                               !.before = [totalRequests |-> 1,
                                                           totalTokens |-> 3]]

\* the calls run one at a time
NextStatistics ==
    \/ \E c \in 1..MaxCalls, args \in RecordedCalls : Quiet /\ CallRecord(c, args)
    \/ \E c \in 1..MaxCalls : WriteBack(c)
    \/ \E c \in 1..MaxCalls : Complete(c)
    \/ Quiet /\ Reset

SpecStatistics == InitStatistics /\ [][NextStatistics]_vars

\* the requests of one provider
OverlappingCalls == {args \in RecordedCalls : args.providerId = "chatglm-coding"}

\* the calls of recordRequest overlap
NextOverlap ==
    \/ \E c \in 1..MaxCalls, args \in OverlappingCalls : CallRecord(c, args)
    \/ \E c \in 1..MaxCalls : WriteBack(c)
    \/ \E c \in 1..MaxCalls : Complete(c)

SpecOverlap == InitStatistics /\ [][NextOverlap]_vars

(***************************************************************************)
(* Properties.  What a request has received and what it has reported.      *)
(***************************************************************************)
Requests == DOMAIN pc

RECURSIVE Flatten(_)
\* the concatenation of a sequence of sequences
Flatten(seqs) == IF seqs = <<>> THEN <<>> ELSE Head(seqs) \o Flatten(Tail(seqs))

\* the lines of the chunks request r has processed
LinesSeen(r) == Flatten(SubSeq(input[r], 1, next[r] - 1))

\* the content fragments of a sequence of lines, joined
ContentOf(lines) == Join([k \in 1..Len(lines) |-> lines[k].delta.content])

\* the values of the text parts among evts that carry content, joined
TextOf(evts) ==
    Join([k \in 1..Len(evts) |->
            IF evts[k].kind = "Text" /\ evts[k].via = "content" THEN evts[k].value ELSE ""])

\* request r received content lines and then the [DONE] line, and returned
ReturnedContentOnly(r) ==
    /\ pc[r] = "returned"
    /\ Len(LinesSeen(r)) > 1
    /\ \A k \in 1..Len(LinesSeen(r)) :
           IF k = Len(LinesSeen(r)) THEN LinesSeen(r)[k] = DoneLine
           ELSE /\ LinesSeen(r)[k].delta.content # ""
                /\ LinesSeen(r)[k] = ContentLine(LinesSeen(r)[k].delta.content)

RECURSIVE RunAlone(_, _)
\* the result of a request that processes chunks on a provider of its own, from r
RunAlone(r, chunks) ==
    IF chunks = <<>> THEN r
    ELSE RunAlone(processLines([p |-> r.p, out |-> r.out], Head(chunks)), Tail(chunks))

\* the parts a request reports for the stream chunks when it runs alone
AloneEvents(chunks) == RunAlone([p |-> InitialFields, out |-> <<>>, threw |-> FALSE], chunks).out

RECURSIVE MergeTexts(_)
\* evts with the hint parts left out and each run of adjacent text parts made one
MergeTexts(evts) ==
    IF evts = <<>> THEN <<>>
    ELSE IF evts[1].via = "hint" THEN MergeTexts(Tail(evts))
    ELSE IF Len(evts) > 1 /\ evts[1].kind = "Text" /\ evts[2].kind = "Text"
         THEN MergeTexts(<<[evts[1] EXCEPT !.value = @ \o evts[2].value]>> \o SubSeq(evts, 3, Len(evts)))
    ELSE <<[kind |-> evts[1].kind, value |-> evts[1].value, name |-> evts[1].name,
            input |-> evts[1].input]>> \o MergeTexts(Tail(evts))

\* C1 as stated: a decoding session reports one logical call (a name with its
\* arguments object) in one ToolCall part only, whichever channels delivered it
C1_OneToolCallPerLogicalCall ==
    \A r \in Requests : \A i, j \in 1..Len(events[r]) :
        (/\ i < j
         /\ events[r][i].kind = "ToolCall" /\ events[r][j].kind = "ToolCall"
         /\ events[r][i].name = events[r][j].name)
        => events[r][i].input # events[r][j].input

\* C2 as stated: when a request received content only, the text it reported is the
\* visible text of the whole content (what one fragment holding all of it yields),
\* however the content was cut into fragments
C2_NoVisibleTextLost ==
    \A r \in Requests :
        ReturnedContentOnly(r) =>
            TextOf(events[r]) = TextOf(AloneEvents(<<  <<ContentLine(ContentOf(LinesSeen(r)))>>  >>))

\* C3 as stated: a content cut into fragments at any offset yields the parts that
\* the whole content yields in one fragment (adjacent text parts read as one)
C3_MarkerSplitInvariance ==
    \A r \in Requests :
        ReturnedContentOnly(r) =>
            MergeTexts(events[r]) =
                MergeTexts(AloneEvents(<<  <<ContentLine(ContentOf(LinesSeen(r)))>>, <<DoneLine>>  >>))

\* some pending structured call of the provider has argument text that is no JSON object
PendingUnparseable ==
    \E k \in 1..Len(provider.toolCallBuffers) :
        ~tryParseJSONObject(provider.toolCallBuffers[k].args).ok

\* C4 as stated: a step that processes the line finish_reason "tool_calls" while a
\* pending structured call is unparseable ends the request with a raised error
C4_InvalidPayloadRaised ==
    [][\A r \in Requests :
          (/\ pc[r] = "reading" /\ next[r] <= Len(input[r])
           /\ next'[r] = next[r] + 1
           /\ input[r][next[r]] = <<FinishLine("tool_calls")>>
           /\ PendingUnparseable)
          => pc'[r] = "failed"]_vars

\* C5 as stated: a request that returns while another is in flight on the same
\* provider reported the parts it reports for its stream when it runs alone
C5_ConcurrentRequestsIndependent ==
    \A r \in Requests : pc[r] = "returned" => events[r] = AloneEvents(input[r])

\* the structured parts among evts: those reported from the buffer of an index
Structured(evts) == SelectSeq(evts, LAMBDA e : e.via \in {"merge", "flush"})

\* the argument fragments request r has received for the structured index i
ArgumentsSeen(r, i) ==
    SelectSeq(Flatten([k \in 1..Len(LinesSeen(r)) |-> LinesSeen(r)[k].delta.tool_calls]),
              LAMBDA tc : tc.index = i /\ tc.arguments # None)

\* the argument text of the first n fragments request r has received for index i
Accumulated(r, i, n) ==
    Join([k \in 1..n |-> ArgumentsSeen(r, i)[k].arguments])

\* C6: every part reported for a structured index was made of argument text that
\* is what the fragments received so far for the index add up to at some fragment,
\* that parses as a JSON object, and whose parsed object is the part's input
C6_NoPrematureEmission ==
    \A r \in Requests : \A k \in 1..Len(Structured(events[r])) :
        /\ \E n \in 1..Len(ArgumentsSeen(r, Structured(events[r])[k].index)) :
               Structured(events[r])[k].raw = Accumulated(r, Structured(events[r])[k].index, n)
        /\ tryParseJSONObject(Structured(events[r])[k].raw).ok
        /\ Structured(events[r])[k].input = tryParseJSONObject(Structured(events[r])[k].raw).value

\* C6 happens: a structured call that arrived in two fragments, the first of them
\* incomplete JSON, was reported once the text was whole
C6_Witness ==
    \E r \in Requests : \E k \in 1..Len(Structured(events[r])) :
        /\ Len(ArgumentsSeen(r, Structured(events[r])[k].index)) > 1
        /\ ~tryParseJSONObject(Accumulated(r, Structured(events[r])[k].index, 1)).ok
        /\ Structured(events[r])[k].raw = Accumulated(r, Structured(events[r])[k].index, 2)

RECURSIVE EmbedsFrom(_, _, _, _)
\* the characters of text from offset i on occur in source from offset from on, in
\* the order of text: each is matched at the least offset left
EmbedsFrom(text, i, source, from) ==
    IF i >= Len(text) THEN TRUE
    ELSE IF from >= Len(source) THEN FALSE
    ELSE IF CharAt(source, from) = CharAt(text, i) THEN EmbedsFrom(text, i + 1, source, from + 1)
    ELSE EmbedsFrom(text, i, source,
                    IF \A j \in (from + 1)..(Len(source) - 1) : CharAt(source, j) # CharAt(text, i)
                    THEN Len(source)
                    ELSE FirstFrom({j \in (from + 1)..(Len(source) - 1) :
                                       CharAt(source, j) = CharAt(text, i)}, 0))

\* C7: the text reported so far, one part after the other, is made of characters
\* of the content received so far in the order they arrived in
C7_OrderPreserved ==
    \A r \in Requests : EmbedsFrom(TextOf(events[r]), 0, ContentOf(LinesSeen(r)), 0)

\* C7 happens: one fragment held visible text both before and after an inline
\* call, and both segments were reported in one text part
C7_Witness ==
    \E r \in Requests : \E k \in 1..Len(events[r]) :
        /\ input[r][1][1] = ContentLine(TextCall)
        /\ events[r][k].kind = "Text" /\ events[r][k].value = "X<Y"

\* text holds a tool-call sentinel or a section-boundary token
HoldsControlToken(text) ==
    \E i \in 0..(Len(text) - 1) :
        \/ StartsWithAt(text, BEGIN, i)
        \/ StartsWithAt(text, ARG_BEGIN, i)
        \/ StartsWithAt(text, END, i)
        \/ SectionTokenAt(text, i) > 0

\* C8 as stated: no text part reported holds a sentinel or a section-boundary token
C8_NoControlTokenInText ==
    \A r \in Requests : \A k \in 1..Len(events[r]) :
        events[r][k].kind = "Text" => ~HoldsControlToken(events[r][k].value)

\* C9: a request reports at most one part per structured index, and while it runs
\* a reported index is marked completed and has no buffer
C9_StructuredIndexOnce ==
    \A r \in Requests :
        /\ \A i, j \in 1..Len(Structured(events[r])) :
               Structured(events[r])[i].index = Structured(events[r])[j].index => i = j
        /\ pc[r] \in {"loop", "reading"} =>
               \A k \in 1..Len(Structured(events[r])) :
                   /\ Structured(events[r])[k].index \in provider.completedToolCallIndices
                   /\ ~BufferHas(provider.toolCallBuffers, Structured(events[r])[k].index)

\* C9 happens: an index was reported, a later fragment for it arrived, and a
\* terminal marker or [DONE] flushed after that
C9_Witness ==
    \E r \in Requests : \E a, b, c \in 1..Len(LinesSeen(r)) :
        /\ a < b /\ b < c
        /\ Len(Structured(events[r])) = 1
        /\ Structured(events[r])[1].index = 0
        /\ LinesSeen(r)[a] = ToolCallsLine(<<ToolCallFragment(0, "c1", "search", "{ \"q\" : \"x\" }")>>)
        /\ LinesSeen(r)[b] = ToolCallsLine(<<ToolCallFragment(0, None, None, "\"x\"}")>>)
        /\ LinesSeen(r)[c] \in {FinishLine("tool_calls"), DoneLine}

\* the decoder fields but the output counter, which the request reads after the
\* read loop has returned
SessionState(p) == [p EXCEPT !.outputTokenCount = 0]

\* C10 as stated: the wait for a chunk starts only when no cancellation is
\* requested; the step that leaves the read loop on cancellation reports nothing
\* and leaves no session state in the provider
C10_CancelledClearsSession ==
    [][\A r \in Requests :
          /\ (pc[r] = "loop" /\ pc'[r] = "reading") => ~cancelled[r]
          /\ (pc[r] # "cancelled" /\ pc'[r] = "cancelled") =>
                 /\ cancelled[r]
                 /\ events'[r] = events[r]
                 /\ SessionState(provider') = InitialFields]_vars

\* request r takes a step that processes a chunk made of the one line line
ProcessesLine(r, line) ==
    /\ pc[r] = "reading" /\ next[r] <= Len(input[r])
    /\ next'[r] = next[r] + 1
    /\ input[r][next[r]] = <<line>>

\* the parts request r reports in the step
Reported(r) == SubSeq(events'[r], Len(events[r]) + 1, Len(events'[r]))

\* C11 as stated: a step that processes finish_reason "stop" or [DONE] raises no
\* error and reports every pending structured call whose argument text parses as
\* a JSON object, with the parsed object, and none whose text does not parse
C11_OpportunisticFlush ==
    [][\A r \in Requests :
          (ProcessesLine(r, FinishLine("stop")) \/ ProcessesLine(r, DoneLine)) =>
              /\ pc'[r] # "failed"
              /\ \A k \in 1..Len(provider.toolCallBuffers) :
                     IF tryParseJSONObject(provider.toolCallBuffers[k].args).ok
                     THEN \E j \in 1..Len(Reported(r)) :
                              /\ Reported(r)[j].via = "flush"
                              /\ Reported(r)[j].index = provider.toolCallBuffers[k].index
                              /\ Reported(r)[j].input =
                                     tryParseJSONObject(provider.toolCallBuffers[k].args).value
                     ELSE \A j \in 1..Len(Reported(r)) :
                              Reported(r)[j].index # provider.toolCallBuffers[k].index]_vars

\* C12 as stated: once the decoding of a request has finished (stream end,
\* cancellation or error) the buffers, the completed indices, the parser
\* carryover, the active call, both registries and the flags are as after
\* construction
C12_FinishedClearsSession ==
    \A r \in Requests :
        pc[r] \in {"returned", "cancelled", "failed"} => SessionState(provider) = InitialFields

\* request r has started and no request after it has
Latest(r) == pc[r] # "idle" /\ \A q \in Requests : q > r => pc[q] = "idle"

\* what a request that processed chunks on a provider of its own has and has reported
Alone(chunks) == RunAlone([p |-> InitialFields, out |-> <<>>, threw |-> FALSE], chunks)

\* C13: whatever the requests before it did, a request has reported the parts it
\* reports for the chunks it processed when it runs on a fresh provider, and while
\* it is the latest request the output counter is the one it has there
C13_SequentialReuse ==
    \A r \in Requests :
        /\ events[r] = Alone(SubSeq(input[r], 1, next[r] - 1)).out
        /\ Latest(r) =>
               provider.outputTokenCount =
                   Alone(SubSeq(input[r], 1, next[r] - 1)).p.outputTokenCount

\* C13 happens: the second request returned after it reported the indexed inline
\* call that the first request, now settled, had reported too
C13_Witness ==
    /\ 2 \in Requests /\ pc[1] \in Finished /\ pc[2] = "returned"
    /\ input[1] = CutStream(<<TextCall>>) /\ input[2] = CutStream(<<TextCall>>)
    /\ \E k \in 1..Len(events[1]) : events[1][k].kind = "ToolCall" /\ events[1][k].index = 1
    /\ \E k \in 1..Len(events[2]) : events[2][k].kind = "ToolCall" /\ events[2][k].index = 1

\* lines without the malformed ones, one per chunk
WellFormed(lines) == LineStream(SelectSeq(lines, LAMBDA l : l # MalformedLine))

\* C14: the step that processes a malformed line raises no error and changes
\* neither the decoder fields nor the parts reported, and after every chunk the
\* request has reported what it reports for the lines without the malformed ones
C14_MalformedLineDropped ==
    [][\A r \in Requests :
          /\ ProcessesLine(r, MalformedLine) =>
                 /\ pc'[r] = "loop"
                 /\ provider' = provider
                 /\ events'[r] = events[r]
          /\ next'[r] = next[r] + 1 =>
                 events'[r] = AloneEvents(WellFormed(Flatten(SubSeq(input[r], 1, next[r]))))]_vars

\* C14 happens: a malformed line arrived between the two fragments of a
\* structured call, and the call was reported when the second one came
C14_Witness ==
    \E r \in Requests :
        /\ Len(LinesSeen(r)) = 3
        /\ LinesSeen(r)[1] = ToolCallsLine(<<ToolCallFragment(0, None, "search", "{\"q\":")>>)
        /\ LinesSeen(r)[2] = MalformedLine
        /\ LinesSeen(r)[3] = ToolCallsLine(<<ToolCallFragment(0, None, None, "\"x\"}")>>)
        /\ Len(Structured(events[r])) = 1

\* the content request r has received once the step's chunk is processed
ContentAfter(r) == ContentOf(Flatten(SubSeq(input[r], 1, next[r])))

\* the ToolCall parts among evts, as name and input
ToolCallsOf(evts) ==
    [k \in 1..Len(SelectSeq(evts, LAMBDA e : e.kind = "ToolCall")) |->
        <<SelectSeq(evts, LAMBDA e : e.kind = "ToolCall")[k].name,
          SelectSeq(evts, LAMBDA e : e.kind = "ToolCall")[k].input>>]

\* C15: with its markers whole, a malformed inline call raises no error and is
\* never reported; once its end marker is processed no call is active; and the
\* text and the valid call after it are reported
C15_MalformedInlineCall ==
    [][\A r \in Requests :
          (input[r] \in MalformedCallStreams /\ next'[r] = next[r] + 1) =>
              /\ pc'[r] = "loop"
              /\ \A k \in 1..Len(events'[r]) : events'[r][k].name # "bar"
              /\ ContentAfter(r) = MalformedCall =>
                     ~provider'.textToolActive.on /\ events'[r] = <<>>
              /\ ContentAfter(r) = Join(MalformedSegments) =>
                     /\ ~provider'.textToolActive.on
                     /\ TextOf(events'[r]) = "Z"
                     /\ ToolCallsOf(events'[r]) = << <<"g", "{}">> >>]_vars

\* C15 happens: the malformed call came cut inside its argument text, and all
\* that follows it was decoded
C15_Witness ==
    \E r \in Requests :
        /\ input[r] \in MalformedCallStreams /\ Len(input[r]) = 2
        /\ input[r][1][1].delta.content = "<|tool_call_begin|>bar<|tool_call_argument_begin|>n"
        /\ pc[r] = "returned"
        /\ TextOf(events[r]) = "Z"
        /\ ToolCallsOf(events[r]) = << <<"g", "{}">> >>

\* C16: for the call whose argument text is cut at any offset, its markers whole,
\* at most one ToolCall is ever reported, and once all the content is processed
\* the parts reported are the ToolCall with the header's name and the parsed
\* object, then the text after the end marker
C16_ArgumentCut ==
    \A r \in Requests :
        input[r] \in ArgumentCutStreams =>
            /\ Len(ToolCallsOf(events[r])) <= 1
            /\ ContentOf(LinesSeen(r)) = Join(ArgumentSegments) =>
                   /\ Len(events[r]) = 2
                   /\ events[r][1].kind = "ToolCall"
                   /\ events[r][1].name = "foo"
                   /\ events[r][1].input = "{\"x\":1}"
                   /\ events[r][2].kind = "Text"
                   /\ events[r][2].value = " done"

\* C16 happens: the argument text came as {"x": and 1}, and the request returned
\* with the call and the text
C16_Witness ==
    \E r \in Requests :
        /\ input[r] \in ArgumentCutStreams /\ Len(input[r]) = 2
        /\ input[r][1][1].delta.content = "<|tool_call_begin|>foo<|tool_call_argument_begin|>{\"x\":"
        /\ pc[r] = "returned"
        /\ ToolCallsOf(events[r]) = << <<"foo", "{\"x\":1}">> >>
        /\ TextOf(events[r]) = " done"

RECURSIVE SumOf(_)
\* the sum of a sequence of numbers
SumOf(numbers) == IF numbers = <<>> THEN 0 ELSE Head(numbers) + SumOf(Tail(numbers))

\* the size, a fourth of the length rounded up, of the content fragment and of the
\* argument fragments of a line
SizeOfLine(line) ==
    Ceil4(Len(line.delta.content))
    + SumOf([k \in 1..Len(line.delta.tool_calls) |->
                IF line.delta.tool_calls[k].arguments = None THEN 0
                ELSE Ceil4(Len(line.delta.tool_calls[k].arguments))])

\* C17 as stated: while a request runs the output counter never decreases, and
\* when the request settles the counter is the sum of the sizes of all the content
\* and argument fragments the request received
C17_OutputCounter ==
    [][\A r \in Requests :
          pc[r] \in {"loop", "reading"} =>
              /\ provider'.outputTokenCount >= provider.outputTokenCount
              /\ pc'[r] \in Finished =>
                     provider'.outputTokenCount =
                         SumOf([k \in 1..Len(LinesSeen(r)) |-> SizeOfLine(LinesSeen(r)[k])])]_vars

\* the requests that statsManager.recordRequest was called for
Recorded == {stats[k].request : k \in 1..Len(stats)}

\* the request has failed with nothing sent, nothing reported, nothing recorded
FailedUnsent(r) ==
    /\ pc[r] = "failed"
    /\ fetches[r] = <<>>
    /\ events[r] = <<>>
    /\ r \notin Recorded

\* C18: a request whose estimated message tokens plus tool tokens exceed
\* max(1, model.maxInputTokens) fails as soon as it starts: no HTTP request is
\* made, no part is reported and no statistics are recorded
C18_TokenBudgetChecked ==
    \A r \in Requests :
        (/\ pc[r] # "idle"
         /\ estimateMessagesTokens(call[r].messages) + estimateToolTokens(call[r].tools)
                > Max(1, call[r].maxInputTokens))
        => FailedUnsent(r)

\* a request with a key, valid, with one tool, of 2 + 2 tokens against a limit of
\* 3 has failed unsent; another, of 2 tokens against max(1, -1), has too
C18_Witness ==
    \E r \in Requests :
        /\ FailedUnsent(r)
        /\ ApiKeySecret \in DOMAIN secrets /\ call[r].valid /\ call[r].tools.count <= 128
        /\ \/ /\ call[r].messages = <<5>>
              /\ call[r].tools.count = 1
              /\ call[r].maxInputTokens = 3
           \/ /\ call[r].messages = <<5>>
              /\ call[r].tools.count = 0
              /\ call[r].maxInputTokens = -1

\* C19: once fetch has resolved with a status that is not a success, or with no
\* body, the request has failed after one call of fetch, with no part reported
\* and no statistics recorded, and it stays so
C19_TransportFailure ==
    \A r \in Requests :
        (response[r].arrived /\ ~(response[r].ok /\ response[r].body))
        => /\ pc[r] = "failed"
           /\ Len(fetches[r]) = 1
           /\ events[r] = <<>>
           /\ r \notin Recorded

\* a request has failed on a response with a body whose status is not a success
C19_Witness ==
    \E r \in Requests :
        /\ response[r].arrived /\ ~response[r].ok /\ response[r].body
        /\ pc[r] = "failed"
        /\ Len(fetches[r]) = 1

\* the entries of a list that carry the id of provider p and whose tooltip tells
\* of the missing key
KeylessEntries(infos, p) ==
    {i \in 1..Len(infos) :
        /\ UpToColon(infos[i].id) = p.id
        /\ IndexOf(infos[i].tooltip, "API key") # -1}

\* C20 as stated: in the list prepareLanguageModelChatInformation returns, every
\* enabled ChatGLM provider whose key is not stored has at least one entry that
\* carries its id and whose tooltip tells of the missing API key
C20_KeylessProviderListed ==
    listing.called =>
        \A k \in 1..Len(getAllProviders) :
            (/\ getAllProviders[k].id \in listing.enabledProviderIds
             /\ getAllProviders[k].apiKeySecret \notin listing.stored)
            => KeylessEntries(listing.infos, getAllProviders[k]) # {}

\* the entries of a list for model m on provider p
EntriesFor(infos, p, m) ==
    {i \in 1..Len(infos) :
        /\ infos[i].id = p.id \o ":" \o m
        /\ infos[i].name = m \o " (" \o p.name \o ")"}

\* C21 as stated: when both providers are enabled, the key is stored and both
\* endpoints give the same model ids, the list returned has an entry for every
\* model on each provider
C21_ModelOnEachProvider ==
    (/\ listing.called
     /\ {"chatglm-coding", "chatglm-general"} \subseteq listing.enabledProviderIds
     /\ ApiKeySecret \in listing.stored
     /\ listing.fetched["chatglm-coding"] = listing.fetched["chatglm-general"]
     /\ listing.fetched["chatglm-coding"] # FetchFailed)
    => \A k \in 1..Len(getAllProviders) :
          \A j \in 1..Len(listing.fetched["chatglm-coding"]) :
              EntriesFor(listing.infos, getAllProviders[k],
                         listing.fetched["chatglm-coding"][j]) # {}

\* request r starts in this step
Starts(r) == pc[r] = "idle" /\ pc'[r] # "idle"

\* the step of request r fails it with no call of fetch
FailsUnsent(r) == pc'[r] = "failed" /\ fetches'[r] = <<>>

\* C22: when a request starts, the input box is shown exactly when no key is
\* stored and the request is not silent.  With no key stored, a silent request
\* fails with no prompt and no call of fetch; a request that is not silent and
\* whose prompt is answered " k2 " stores "k2" and, when it is sent, sends "k2";
\* one whose prompt is dismissed or answered with blanks fails with no call of
\* fetch and stores nothing.  With a key stored nothing is asked and that key is
\* the one sent.
C22_ApiKeyPrompt ==
    [][\A r \in Requests :
        Starts(r) =>
            /\ prompts'[r] = prompts[r] + 1
                  <=> (ApiKeySecret \notin DOMAIN secrets /\ ~call[r].silent)
            /\ prompts'[r] \in {prompts[r], prompts[r] + 1}
            /\ (ApiKeySecret \notin DOMAIN secrets /\ call[r].silent)
                  => FailsUnsent(r) /\ secrets' = secrets
            /\ (ApiKeySecret \notin DOMAIN secrets /\ ~call[r].silent
                    /\ call[r].entered = " k2 ")
                  => /\ secrets' = [n \in {ApiKeySecret} |-> "k2"]
                     /\ fetches'[r] \in {<<>>, <<"k2">>}
                     /\ fetches'[r] = <<>> <=> pc'[r] = "failed"
            /\ (ApiKeySecret \notin DOMAIN secrets /\ ~call[r].silent
                    /\ call[r].entered \in {None, " "})
                  => FailsUnsent(r) /\ secrets' = secrets
            /\ ApiKeySecret \in DOMAIN secrets
                  => /\ secrets' = secrets
                     /\ fetches'[r] \in {<<>>, <<secrets[ApiKeySecret]>>}
      ]_vars

\* a request that found no key has asked once, stored the trimmed answer and
\* sent it
C22_Witness ==
    \E r \in Requests :
        /\ ~call[r].silent
        /\ call[r].entered = " k2 "
        /\ prompts[r] = 1
        /\ ApiKeySecret \in DOMAIN secrets /\ secrets[ApiKeySecret] = "k2"
        /\ fetches[r] = <<"k2">>

\* the text of the chunks read so far
TextRead == Join(SubSeq(reader.chunks, 1, reader.read))

\* C23: after every read, the payloads handed on and the line buffer are those
\* of the text read so far arriving in one chunk; the buffer holds no line
\* feed, so a line whose line feed has not arrived is held back whole
C23_ChunkingIndependent ==
    /\ reader.payloads = SplitLines(TextRead, <<>>).payloads
    /\ reader.buffer = SplitLines(TextRead, <<>>).buffer
    /\ IndexOf(reader.buffer, "\n") = -1

\* the body "data: a", empty line, "data: bc" was cut inside "data: " and inside
\* the payload bc; all of it is read and the payloads are a and bc
C23_Witness ==
    /\ reader.chunks = <<"data: a\n\ndat", "a: b", "c\n">>
    /\ reader.read = 3
    /\ reader.payloads = <<"a", "bc">>
    /\ reader.buffer = ""

\* the tool calls request r reports in this step
NewToolCalls(r) ==
    {events'[r][k] : k \in {j \in (Len(events[r]) + 1)..Len(events'[r]) :
                              events'[r][j].kind = "ToolCall"}}

\* C24: after every step that reports a tool call, on the merge of a structured
\* fragment, on a flush of the buffers or on the inline channel, the key made of
\* its name and canonical arguments is in _emittedTextToolCallKeys
C24_KeyRegisteredWithReport ==
    [][\A r \in Requests :
        \A part \in NewToolCalls(r) :
            (part.name \o ":" \o part.input) \in provider'.emittedTextToolCallKeys
      ]_vars

\* a request has reported calls on all three paths and is still in its loop,
\* with the keys of all of them registered
C24_Witness ==
    \E r \in Requests :
        /\ pc[r] = "loop"
        /\ \A via \in {"merge", "flush", "inline"} :
              \E k \in 1..Len(events[r]) :
                  /\ events[r][k].kind = "ToolCall"
                  /\ events[r][k].via = via
                  /\ (events[r][k].name \o ":" \o events[r][k].input)
                        \in provider.emittedTextToolCallKeys

\* part k of the request is a tool call of the structured channel that repeats
\* the name and canonical arguments of a tool call reported before it
RepeatsEarlierCall(evts, k) ==
    /\ evts[k].kind = "ToolCall"
    /\ evts[k].via \in {"merge", "flush"}
    /\ \E j \in 1..(k - 1) :
          /\ evts[j].kind = "ToolCall"
          /\ evts[j].name = evts[k].name
          /\ evts[j].input = evts[k].input

\* C25 as stated: no tool call of the structured channel is reported whose name
\* and canonical arguments an earlier tool call of the request already had
C25_StructuredConsultsRegistry ==
    \A r \in Requests :
        \A k \in 1..Len(events[r]) : ~RepeatsEarlierCall(events[r], k)

\* C26 as stated: a structured call whose accumulated arguments parse as a JSON
\* object is reported on the merge that completed them and its index marked
\* completed, with the name "unknown_tool" when none has arrived; so no buffer
\* is left waiting whose arguments parse
C26_EmittedOnEveryMerge ==
    \A k \in 1..Len(provider.toolCallBuffers) :
        ~tryParseJSONObject(provider.toolCallBuffers[k].args).ok

\* the tool calls of the inline channel among the parts
InlineCalls(evts) ==
    {k \in 1..Len(evts) : evts[k].kind = "ToolCall" /\ evts[k].via = "inline"}

\* C27: among the inline calls of a request, no two with a declared index share
\* name and index, and no two without one share name and canonical arguments;
\* so a call reported before its end marker is not reported again at the end
\* marker or at [DONE]
C27_InlineDedup ==
    \A r \in Requests :
        \A j, k \in InlineCalls(events[r]) :
            j < k =>
                /\ (events[r][j].index # NoIndex /\ events[r][k].index # NoIndex)
                      => ~(/\ events[r][j].name = events[r][k].name
                           /\ events[r][j].index = events[r][k].index)
                /\ (events[r][j].index = NoIndex /\ events[r][k].index = NoIndex)
                      => ~(/\ events[r][j].name = events[r][k].name
                           /\ events[r][j].input = events[r][k].input)

\* the request with two calls f:1 has returned: the first was reported before
\* its end marker, and neither the end marker, the second call f:1 with other
\* arguments nor [DONE] reported another
C27_Witness ==
    \E r \in Requests :
        /\ input[r] = RepeatStream
        /\ pc[r] = "returned"
        /\ Len(events[r]) = 2
        /\ events[r][1].kind = "ToolCall"
        /\ events[r][1].name = "f"
        /\ events[r][1].index = 1
        /\ events[r][1].input = "{}"
        /\ events[r][2].kind = "Text"

\* request r takes a step that processes a chunk of one line that has content only
ProcessesContent(r) ==
    /\ pc[r] = "reading" /\ next[r] <= Len(input[r])
    /\ next'[r] = next[r] + 1
    /\ Len(input[r][next[r]]) = 1
    /\ input[r][next[r]][1] = ContentLine(input[r][next[r]][1].delta.content)

\* the content of the line that step processes
ContentRead(r) == input[r][next[r]][1].delta.content

\* the name the active call act is reported with
CallName(act) == IF act.name = None THEN "unknown_tool" ELSE act.name

\* the registry that applies to the active call act holds it already
RegistryHolds(p, act, canonical) ==
    IF act.index # NoIndex
    THEN (CallName(act) \o ":" \o ToString(act.index)) \in p.emittedTextToolCallIds
    ELSE (CallName(act) \o ":" \o canonical) \in p.emittedTextToolCallKeys

\* C28: after a step that leaves an inline call active, if
\* its argument buffer parses as a JSON object the call has been reported (or
\* its registry already held it); content without the end marker that reaches
\* an active call already reported reports no call and leaves it active; content
\* with the end marker and no begin marker clears the active call, reporting no
\* call when it was reported before
C28_SpeculativeEmission ==
    [][\A r \in Requests :
        /\ (next'[r] = next[r] + 1 /\ provider'.textToolActive.on
                /\ tryParseJSONObject(provider'.textToolActive.argBuffer).ok)
            => \/ /\ provider'.textToolActive.emitted
                  /\ \E k \in 1..Len(events'[r]) :
                        /\ events'[r][k].via = "inline"
                        /\ events'[r][k].name = CallName(provider'.textToolActive)
                        /\ events'[r][k].input =
                              tryParseJSONObject(provider'.textToolActive.argBuffer).value
               \/ /\ ~provider'.textToolActive.emitted
                  /\ RegistryHolds(provider', provider'.textToolActive,
                         tryParseJSONObject(provider'.textToolActive.argBuffer).value)
        /\ (ProcessesContent(r) /\ provider.textToolActive.on
                /\ provider.textToolActive.emitted /\ IndexOf(ContentRead(r), END) = -1)
            => /\ NewToolCalls(r) = {}
               /\ provider'.textToolActive.on /\ provider'.textToolActive.emitted
               /\ provider'.textToolActive.argBuffer
                     = provider.textToolActive.argBuffer \o ContentRead(r)
        /\ (ProcessesContent(r) /\ provider.textToolActive.on
                /\ IndexOf(ContentRead(r), END) # -1 /\ IndexOf(ContentRead(r), BEGIN) = -1)
            => /\ ~provider'.textToolActive.on
               /\ provider.textToolActive.emitted => NewToolCalls(r) = {}
      ]_vars

\* the call f:1 was reported when its arguments {} arrived, a blank followed,
\* then the end marker with Y: one call and the text Y are reported and no call
\* is active
C28_Witness ==
    \E r \in Requests :
        /\ input[r] = RepeatStream
        /\ next[r] = 4
        /\ pc[r] = "loop"
        /\ ~provider.textToolActive.on
        /\ ToolCallsOf(events[r]) = << <<"f", "{}">> >>
        /\ TextOf(events[r]) = "Y"

\* the content holds a begin marker and after it neither the argument-begin nor
\* the end marker
OpensHeader(content) ==
    /\ IndexOf(content, BEGIN) # -1
    /\ IndexOf(SliceFrom(content, IndexOf(content, BEGIN) + Len(BEGIN)), ARG_BEGIN) = -1
    /\ IndexOf(SliceFrom(content, IndexOf(content, BEGIN) + Len(BEGIN)), END) = -1

\* C29 as stated: when content that opens a header without its delimiter reaches
\* the parser while it scans with nothing carried over, no call is reported and
\* the begin marker with all that follows it is kept in _textToolParserBuffer
C29_HeaderCarryover ==
    [][\A r \in Requests :
        (/\ ProcessesContent(r)
         /\ ~provider.textToolActive.on
         /\ provider.textToolParserBuffer = ""
         /\ OpensHeader(ContentRead(r)))
        => /\ NewToolCalls(r) = {}
           /\ provider'.textToolParserBuffer
                 = SliceFrom(ContentRead(r), IndexOf(ContentRead(r), BEGIN))
      ]_vars

\* the parts of content around a header closed by the end marker: the text
\* before the begin marker, the header, the text after the end marker
BareParts(content) ==
    [before |-> Slice(content, 0, IndexOf(content, BEGIN)),
     header |-> Slice(SliceFrom(content, IndexOf(content, BEGIN) + Len(BEGIN)), 0,
                      IndexOf(SliceFrom(content, IndexOf(content, BEGIN) + Len(BEGIN)), END)),
     after |-> SliceFrom(SliceFrom(content, IndexOf(content, BEGIN) + Len(BEGIN)),
                         IndexOf(SliceFrom(content, IndexOf(content, BEGIN) + Len(BEGIN)), END)
                            + Len(END))]

\* content with one begin marker whose header, a name between blanks, is closed
\* by the end marker, the texts around it free of "<"
IsBare(content) ==
    /\ IndexOf(content, BEGIN) # -1
    /\ IndexOf(SliceFrom(content, IndexOf(content, BEGIN) + Len(BEGIN)), END) # -1
    /\ IndexOf(BareParts(content).header, "<") = -1
    /\ IndexOf(BareParts(content).before, "<") = -1
    /\ IndexOf(BareParts(content).after, "<") = -1
    /\ Len(Trim(BareParts(content).header)) > 0
    /\ RunEnd(Trim(BareParts(content).header), 0, NameChars)
          = Len(Trim(BareParts(content).header))

\* C30: when content with a header closed by the end marker reaches the parser
\* while it scans with nothing carried over, the call is reported with the
\* header's name and the arguments {} unless the registry holds that key, no
\* call is active afterwards, and the text before the begin marker and the text
\* after the end marker are reported as visible text
C30_BareCall ==
    [][\A r \in Requests :
        (/\ ProcessesContent(r)
         /\ ~provider.textToolActive.on
         /\ provider.textToolParserBuffer = ""
         /\ IsBare(ContentRead(r)))
        => /\ ~provider'.textToolActive.on
           /\ provider'.textToolParserBuffer = ""
           /\ ToolCallsOf(Reported(r)) =
                 IF (Trim(BareParts(ContentRead(r)).header) \o ":{}")
                        \in provider.emittedTextToolCallKeys
                 THEN <<>>
                 ELSE << <<Trim(BareParts(ContentRead(r)).header), "{}">> >>
           /\ TextOf(Reported(r))
                 = BareParts(ContentRead(r)).before \o BareParts(ContentRead(r)).after
      ]_vars

\* both bare calls foo are processed: one call foo with {} was reported, the
\* second was held back by the registry, and the texts ab and c were reported
C30_Witness ==
    \E r \in Requests :
        /\ input[r] = BareStream
        /\ next[r] = 3
        /\ ToolCallsOf(events[r]) = << <<"foo", "{}">> >>
        /\ TextOf(events[r]) = "abc"
        /\ ~provider.textToolActive.on

\* the longest sentinel marker is the argument-begin marker
LongestMarker == Len(ARG_BEGIN)

\* C31 as stated: after every call of processTextContent the text kept in
\* _textToolParserBuffer is shorter than the longest marker; and when content
\* reaches the parser while it scans with nothing carried over, and the step
\* holds no end marker, and the step reports a beginning of that content as
\* visible text, leaves no call active and reports none, then what it did not
\* report is short enough to be carried over: all text longer than that has
\* been reported as visible text
C31_CarryoverBounded ==
    [][\A r \in Requests :
        /\ Len(provider'.textToolParserBuffer) <= LongestMarker - 1
        /\ (/\ ProcessesContent(r)
            /\ ~provider.textToolActive.on
            /\ provider.textToolParserBuffer = ""
            /\ ~provider'.textToolActive.on
            /\ NewToolCalls(r) = {}
            /\ IndexOf(ContentRead(r), END) = NoIndex
            /\ StartsWithAt(ContentRead(r), TextOf(Reported(r)), 0))
           => Len(ContentRead(r)) - Len(TextOf(Reported(r))) <= LongestMarker - 1
      ]_vars

\* the step processes a chunk of one line, a delta
ProcessesDelta(r) ==
    /\ pc[r] = "reading" /\ next[r] <= Len(input[r])
    /\ next'[r] = next[r] + 1
    /\ Len(input[r][next[r]]) = 1
    /\ input[r][next[r]][1].kind = "delta"

\* the delta that step processes
DeltaRead(r) == input[r][next[r]][1].delta

\* the place of a part in the order of processDelta: thinking, content, the
\* tool_calls with their hint, the flush on finish_reason
Stage(part) ==
    CASE part.via = "thinking" -> 0
      [] part.via \in {"content", "inline"} -> 1
      [] part.via = "hint" -> 2
      [] part.via = "merge" -> 3
      [] part.via = "flush" -> 4

\* evts begins with the parts of sofar
Extends(evts, sofar) ==
    Len(sofar) <= Len(evts) /\ SubSeq(evts, 1, Len(sofar)) = sofar

\* C32: every step that processes a chunk adds its parts after the parts reported
\* before, and in a step that processes one delta the parts of its content come
\* before the parts of its tool_calls, which come before the parts of the flush
\* on its finish_reason
C32_DeltaOrder ==
    [][\A r \in Requests :
        /\ Extends(events'[r], events[r])
        /\ ProcessesDelta(r) =>
              \A i, j \in 1..Len(Reported(r)) :
                  i < j => Stage(Reported(r)[i]) <= Stage(Reported(r)[j])
      ]_vars

\* the delta with content, tool calls and finish_reason was processed: its
\* inline call and text, the hint, the merged call and the flushed call are
\* reported in that order
C32_Witness ==
    \E r \in Requests :
        /\ input[r] = FullStream /\ next[r] = 2
        /\ [k \in 1..Len(events[r]) |-> events[r][k].via]
              = <<"inline", "content", "hint", "merge", "flush">>

\* C33: on a host without the thinking part, a step that processes a delta with
\* a thinking value reports no Thinking part and leaves the fields and the
\* parts as the same delta without the thinking value leaves them
C33_ThinkingInert ==
    [][\A r \in Requests :
        (ProcessesDelta(r) /\ DeltaRead(r).thinking.given /\ ~thinkingCtor) =>
            /\ \A k \in 1..Len(Reported(r)) : Reported(r)[k].kind # "Thinking"
            /\ ChunkProcessed(r, processLine([p |-> provider, out |-> events[r]],
                    [kind |-> "delta",
                     delta |-> [DeltaRead(r) EXCEPT !.thinking = NoThinking]]))
      ]_vars

\* on a host without the thinking part the delta with a thinking text, content,
\* tool calls and finish_reason was processed
C33_Witness ==
    \E r \in Requests :
        /\ ~thinkingCtor
        /\ next[r] = 2
        /\ input[r][1][1].kind = "delta"
        /\ input[r][1][1].delta = [FullDelta EXCEPT !.thinking = Thinking("how", "t1")]
        /\ Len(events[r]) = 5

\* on a host with the thinking part the thinking text is reported first
ThinkingReported ==
    \E r \in Requests :
        /\ thinkingCtor
        /\ Len(events[r]) = 6
        /\ events[r][1] = LanguageModelThinkingPart("how", "t1")

\* the entries the enabled providers offered to the last call, in registry order
Offered ==
    AllInfos(getAllProviders, listing.enabledProviderIds, listing.stored, listing.fetched)

\* entry a of infos is the first of its base model id
FirstOfBase(infos, a) ==
    \A b \in 1..(a - 1) : BaseModelId(infos[b].id) # BaseModelId(infos[a].id)

\* the entries of infos that are the first of their base model id, in order
FirstsOf(infos) ==
    LET firsts == SelectSeq([a \in 1..Len(infos) |-> a],
                            LAMBDA a : FirstOfBase(infos, a))
    IN  [k \in 1..Len(firsts) |-> infos[firsts[k]]]

TextBeforeCall(content) ==
    /\ IndexOf(content, BEGIN) > 0
    /\ IndexOf(Slice(content, 0, IndexOf(content, BEGIN)), "<") = NoIndex
    /\ Trim(Slice(content, 0, IndexOf(content, BEGIN))) # ""

\* C35 as stated: when content with visible text before an inline call reaches
\* the parser while it scans with nothing carried over, and the step reports
\* the call, a Text part that begins with the text before the call is reported
\* ahead of every ToolCall part of the step
C35_TextBeforeInlineCall ==
    [][\A r \in Requests :
        (/\ ProcessesContent(r)
         /\ ~provider.textToolActive.on
         /\ provider.textToolParserBuffer = ""
         /\ TextBeforeCall(ContentRead(r))
         /\ NewToolCalls(r) # {})
        => /\ Reported(r)[1].kind = "Text"
           /\ StartsWithAt(Reported(r)[1].value,
                           Slice(ContentRead(r), 0, IndexOf(ContentRead(r), BEGIN)), 0)
      ]_vars

\* reader.read() tells request r that the stream is closed
Closes(r) == pc[r] = "reading" /\ next[r] > Len(input[r]) /\ pc'[r] = "returned"

\* a structured call is pending with argument text that parses as a JSON object
PendingParseable(p) ==
    \E k \in 1..Len(p.toolCallBuffers) : tryParseJSONObject(p.toolCallBuffers[k].args).ok

\* C36 as stated: when the stream is closed the flush of the end of the stream
\* has been performed: no structured call whose argument text parses is still
\* pending and no inline call is still active
C36_FlushedAtClose ==
    [][\A r \in Requests :
        Closes(r) => ~PendingParseable(provider) /\ ~provider.textToolActive.on
      ]_vars

\* a stream is closed with no [DONE] line among its lines while a structured
\* call with parseable arguments is pending
ClosedUnflushed ==
    \E r \in Requests :
        /\ pc[r] = "reading" /\ next[r] > Len(input[r])
        /\ \A k \in 1..Len(LinesSeen(r)) : LinesSeen(r)[k].kind # "done"
        /\ PendingParseable(provider)

\* the calls of recordRequest made for request r
RecordsOf(log, r) == SelectSeq(log, LAMBDA e : e.request = r)

\* provideLanguageModelChatResponse has returned without error
ReturnedNormally(state) == state \in {"returned", "cancelled"}

FailedUnrecorded ==
    \E r \in Requests :
        pc[r] = "failed" /\ provider.outputTokenCount > 0 /\ stats = <<>>

(***************************************************************************)
(* Properties of the statistics.                                           *)
(***************************************************************************)
\* what globalState holds, as getStatistics gives it
Stored ==
    IF statistics.stored = 0 THEN createEmptyStatistics
    ELSE statistics.heap[statistics.stored]

RECURSIVE SumOver(_, _)
\* the sum of f over the keys
SumOver(f, keys) ==
    IF keys = {} THEN 0
    ELSE LET k == CHOOSE k \in keys : TRUE IN f[k] + SumOver(f, keys \ {k})

\* getTotal: the totals of the providers, added up
getTotal(data) ==
    [totalRequests |-> SumOver([id \in DOMAIN data.providers |->
                                   data.providers[id].totalRequests],
                               DOMAIN data.providers),
     totalTokens |-> SumOver([id \in DOMAIN data.providers |->
                                 data.providers[id].totalTokens],
                             DOMAIN data.providers)]

\* the totals of a provider are the sums over its models
TotalsAgree(p) ==
    /\ p.totalRequests
          = SumOver([id \in DOMAIN p.models |-> p.models[id].requestCount], DOMAIN p.models)
    /\ p.totalTokens
          = SumOver([id \in DOMAIN p.models |->
                        p.models[id].totalInputTokens + p.models[id].totalOutputTokens],
                    DOMAIN p.models)

\* C38: with the calls of recordRequest and resetStatistics run one at a time,
\* in the stored statistics the totalRequests of every provider is the sum of
\* the requestCount of its models and its totalTokens the sum of their input
\* and output tokens; and when resetStatistics was the last call all totals are
\* zero
C38_TotalsConsistent ==
    /\ \A id \in DOMAIN Stored.providers : TotalsAgree(Stored.providers[id])
    /\ (statistics.last = "reset" /\ Quiet) =>
          /\ getTotal(Stored) = [totalRequests |-> 0, totalTokens |-> 0]
          /\ \A id \in DOMAIN Stored.providers :
                Stored.providers[id].totalRequests = 0 /\ Stored.providers[id].totalTokens = 0

\* three requests were recorded for two models of one provider
C38_Witness ==
    /\ Quiet /\ statistics.last = "record"
    /\ "chatglm-coding" \in DOMAIN Stored.providers
    /\ DOMAIN Stored.providers["chatglm-coding"].models = {"glm-4.7", "glm-4.5"}
    /\ Stored.providers["chatglm-coding"].totalRequests = 3
    /\ Stored.providers["chatglm-coding"].totalTokens > 6

\* statistics were recorded and then reset
C38_ResetReached ==
    /\ statistics.last = "reset"
    /\ \E c \in 1..MaxCalls : statistics.calls[c].pc = "done"
    /\ statistics.stored > 1

\* the calls of recordRequest that have completed
Completed == {c \in 1..MaxCalls : statistics.calls[c].pc = "done"}

\* C39 as stated: when no call of recordRequest is under way, the stored
\* totalRequests has grown by the number of the calls that completed, and the
\* stored token total by the sum of their input and output tokens, however the
\* calls overlapped
C39_NoLostRecord ==
    Quiet =>
        /\ getTotal(Stored).totalRequests
              = statistics.before.totalRequests + Cardinality(Completed)
        /\ getTotal(Stored).totalTokens
              = statistics.before.totalTokens
                + SumOver([c \in Completed |-> statistics.calls[c].inputTokens
                                                 + statistics.calls[c].outputTokens],
                          Completed)

\* two calls completed that were both made before either wrote back
C39_Overlapped ==
    /\ Cardinality(Completed) = 2 /\ Quiet
    /\ statistics.before.totalRequests = 0
    /\ getTotal(Stored).totalRequests = 1

\* the indices with a buffer in _toolCallBuffers
PendingIndices(p) == {p.toolCallBuffers[k].index : k \in 1..Len(p.toolCallBuffers)}

\* C40: after every step no index is both in _toolCallBuffers and in
\* _completedToolCallIndices; and a step that processes a chunk and stays in
\* the read loop keeps every completed index completed, adds none that is
\* still pending, and makes no completed index pending again
C40_PendingOrCompleted ==
    [][/\ PendingIndices(provider') \cap provider'.completedToolCallIndices = {}
       /\ \A r \in Requests :
             (pc[r] = "reading" /\ pc'[r] = "loop") =>
                 /\ provider.completedToolCallIndices
                       \subseteq provider'.completedToolCallIndices
                 /\ PendingIndices(provider') \cap provider.completedToolCallIndices = {}
      ]_vars

\* a fragment for index 0 arrived after index 0 was completed, while another
\* index is pending
C40_Witness ==
    \E r \in Requests :
        /\ pc[r] = "loop"
        /\ provider.completedToolCallIndices = {0}
        /\ PendingIndices(provider) = {1}
        /\ \E j, k \in 1..Len(LinesSeen(r)) :
              /\ j < k
              /\ LinesSeen(r)[j]
                    = ToolCallsLine(<<ToolCallFragment(0, "c1", "search", "{ \"q\" : \"x\" }")>>)
              /\ LinesSeen(r)[k]
                    = ToolCallsLine(<<ToolCallFragment(0, None, None, "\"x\"}")>>)


=============================================================================
